---- MODULE Spec2Model ----
(***************************************************************************)
(* Model of the ichi.moe analyser plugin: the response parser              *)
(* (parseIchiMoeResponse), the word formatter (formatWordWithRuby), the    *)
(* block builder (insertAnalysis) and the sentence annotator               *)
(* (applySentenceRubyTags).                                                *)
(*                                                                         *)
(* Strings are sequences of one-character strings, so that indexOf,        *)
(* includes, slice and concatenation are computed character by character.  *)
(* A reading that is absent (undefined) or empty is the empty sequence:    *)
(* the code tests readings only for truthiness.                            *)
(***************************************************************************)
EXTENDS Integers, Sequences, FiniteSets, TLC

VARIABLES
  pc,               \* where the run is: which function is executing, or which it has returned from
  originalSentence, \* applySentenceRubyTags: the sentence argument
  allFurigana,      \* applySentenceRubyTags: the list of furigana arrays (insertAnalysis collects it)
  stripped,         \* applySentenceRubyTags: the trimmed, sorted entries
  entryIdx,         \* applySentenceRubyTags: position of the for loop in stripped (1-based)
  result,           \* applySentenceRubyTags: the piece sequence
  output,           \* applySentenceRubyTags: the returned string
  sentenceInfo,     \* insertAnalysis: the analysis to render
  furiganaMap,      \* the plugin's dictionary index, key -> furigana array
  analysisText,     \* insertAnalysis: the word list of the block
  inserted,         \* the text handed to editor.replaceRange
  notices,          \* the notices shown to the user, in order
  html,             \* parseIchiMoeResponse: the response document, as the selectors see it
  originalText,     \* parseIchiMoeResponse: the text that was submitted
  romanization,     \* parseIchiMoeResponse: the romanization found
  words,            \* parseIchiMoeResponse: the words collected so far
  glossQueue,       \* parseIchiMoeResponse: the word blocks still to visit
  editor,           \* the editor: its lines and the two ends of its selection
  invokedOn,        \* the editor as it was when the command was invoked (history)
  textToAnalyze,    \* analyzeText: the text captured when the command was invoked (text)
  response,         \* fetchIchiMoeAnalysis: the outcome of requestUrl
  calls,            \* the calls made for the request, in order: requestUrl, parse, replaceRange
  insertedAt,       \* the position handed to editor.replaceRange
  loading,          \* loadFuriganaData: where it is, the dataset it reads, how it ended
  commandRegistered, \* onload: addCommand has run
  statusEl          \* the settings tab: the entry count its status line shows

annotateVars == <<originalSentence, allFurigana, stripped, entryIdx, result, output>>

insertVars == <<sentenceInfo, furiganaMap, analysisText, inserted, notices>>

parseVars == <<html, originalText, romanization, words, glossQueue>>

commandVars == <<editor, invokedOn, textToAnalyze, response, calls, insertedAt>>

pluginVars == <<loading, commandRegistered, statusEl>>

(* What the functions of one analysis leave alone when run on their own.   *)
sessionVars == <<commandVars, pluginVars>>

vars == <<pc, annotateVars, insertVars, parseVars, commandVars, pluginVars>>

(* What the annotator leaves alone.                                        *)
outsideAnnotate == <<insertVars, parseVars, sessionVars>>

(* ------------------------------ bounds --------------------------------- *)

MaxSentenceLen == 3

MaxTotalSegs == 3

MaxWords == 2

MaxRows == 2

MaxBlocks == 2

MaxLabelLen == 4

MaxAlternatives == 2

(* The splitting loop of an entry with an empty base never ends; the model *)
(* stops it once the piece sequence is longer than any terminating run     *)
(* can make it (one annotated piece per character, literals in between).   *)
MaxPieces == 2 * MaxSentenceLen + 3

Alphabet == {"a", "b"}

NoReading == <<>>

Segments ==
  { [ruby |-> <<"a">>, rt |-> NoReading],
    [ruby |-> <<"a">>, rt |-> <<"x">>],
    [ruby |-> <<"a">>, rt |-> <<"y">>],
    [ruby |-> <<"b">>, rt |-> <<"x">>] }

(* --------------------------- string helpers ---------------------------- *)

Min(a, b) == IF a < b THEN a ELSE b

Max(a, b) == IF a > b THEN a ELSE b

SeqsUpTo(S, n) == UNION { [1..k -> S] : k \in 0..n }

RECURSIVE Concat(_)
Concat(ss) == IF ss = <<>> THEN <<>> ELSE Head(ss) \o Concat(Tail(ss))

(* Array.prototype.slice / String.prototype.slice with 0-based, possibly   *)
(* negative, start and end.                                                *)
JsSlice(arr, start, end) ==
  LET len  == Len(arr)
      from == IF start < 0 THEN Max(len + start, 0) ELSE Min(start, len)
      to   == IF end < 0 THEN Max(len + end, 0) ELSE Min(end, len)
  IN  SubSeq(arr, from + 1, to)

OccursAt(s, base, i) ==
  /\ i >= 0
  /\ i + Len(base) <= Len(s)
  /\ \A k \in 1..Len(base) : s[i + k] = base[k]

(* String.prototype.indexOf: 0-based index of the first occurrence, -1 if  *)
(* there is none.                                                          *)
IndexOf(s, base) ==
  LET hits == { i \in 0..Len(s) : OccursAt(s, base, i) }
  IN  IF hits = {} THEN -1 ELSE CHOOSE i \in hits : \A j \in hits : i <= j

Includes(s, base) == IndexOf(s, base) >= 0

(* ------------------------------ annotator ------------------------------ *)

HasRt(obj) == obj.rt # NoReading

FindIndexRt(arr) ==
  LET hits == { i \in 1..Len(arr) : HasRt(arr[i]) }
  IN  IF hits = {} THEN -1 ELSE (CHOOSE i \in hits : \A j \in hits : i <= j) - 1

FindLastIndexRt(arr) ==
  LET hits == { i \in 1..Len(arr) : HasRt(arr[i]) }
  IN  IF hits = {} THEN -1 ELSE (CHOOSE i \in hits : \A j \in hits : i >= j) - 1

RubyTexts(arr) == [i \in 1..Len(arr) |-> arr[i].ruby]

StripEntryKeepsTail(arr) ==
  LET firstIdx == FindIndexRt(arr)
      subArray == JsSlice(arr, firstIdx, Len(arr))
  IN  [furigana |-> subArray, base |-> Concat(RubyTexts(subArray))]

StripEntry(arr) ==
  LET firstIdx == FindIndexRt(arr)
      lastIdx  == FindLastIndexRt(arr)
      subArray == JsSlice(arr, firstIdx, lastIdx + 1)
  IN  [furigana |-> subArray, base |-> Concat(RubyTexts(subArray))]

SortByBaseLenKeepsInputOrder(es) == es

(* Array.prototype.sort with (a, b) => b.base.length - a.base.length: a    *)
(* stable sort, longest base first.                                        *)
RECURSIVE InsertByBaseLenUnstable(_, _)
InsertByBaseLenUnstable(sorted, e) ==
  IF sorted = <<>> THEN <<e>>
  ELSE IF Len(Head(sorted).base) > Len(e.base)
       THEN <<Head(sorted)>> \o InsertByBaseLenUnstable(Tail(sorted), e)
       ELSE <<e>> \o sorted

RECURSIVE InsertByBaseLen(_, _)
InsertByBaseLen(sorted, e) ==
  IF sorted = <<>> THEN <<e>>
  ELSE IF Len(Head(sorted).base) >= Len(e.base)
       THEN <<Head(sorted)>> \o InsertByBaseLen(Tail(sorted), e)
       ELSE <<e>> \o sorted

RECURSIVE SortByBaseLenOfReversed(_)
SortByBaseLenOfReversed(es) ==
  IF es = <<>> THEN <<>>
  ELSE InsertByBaseLen(SortByBaseLenOfReversed(Tail(es)), Head(es))

RECURSIVE SortByBaseLen(_)
SortByBaseLen(es) ==
  IF es = <<>> THEN <<>>
  ELSE InsertByBaseLen(SortByBaseLen(SubSeq(es, 1, Len(es) - 1)), es[Len(es)])

StripAll(all) == SortByBaseLen([i \in 1..Len(all) |-> StripEntry(all[i])])

Lit(s) == [isString |-> TRUE, str |-> s, furigana |-> <<>>]

Ann(f) == [isString |-> FALSE, str |-> <<>>, furigana |-> f]

PieceText(x) == IF x.isString THEN x.str ELSE Concat(RubyTexts(x.furigana))

PieceMatches(x, base) == x.isString /\ Includes(x.str, base)

FindPieceFirstPieceOnly(res, base) == IF PieceMatches(res[1], base) THEN 0 ELSE -1

(* result.findIndex(...): 0-based index of the first matching piece, or -1 *)
FindPiece(res, base) ==
  LET hits == { i \in 1..Len(res) : PieceMatches(res[i], base) }
  IN  IF hits = {} THEN -1 ELSE (CHOOSE i \in hits : \A j \in hits : i <= j) - 1

RightRemainderSkipsOneChar(substring, idx, base) == JsSlice(substring, idx + 1, Len(substring))

RightRemainder(substring, idx, base) == JsSlice(substring, idx + Len(base), Len(substring))

SplitPieceMergesIntoAnyNeighbour(res, subIdx, base, furigana) ==
  LET substring == PieceText(res[subIdx + 1])
      farLeft   == JsSlice(res, 0, subIdx)
      farRight  == JsSlice(res, subIdx + 1, Len(res))
      idx       == IndexOf(substring, base)
      left      == JsSlice(substring, 0, idx)
      right     == RightRemainder(substring, idx, base)
      newLeft   == IF farLeft # <<>>
                   THEN [farLeft EXCEPT ![Len(farLeft)] = Lit(PieceText(@) \o left)]
                   ELSE Append(farLeft, Lit(left))
      newRight  == IF farRight # <<>>
                   THEN [farRight EXCEPT ![1] = Lit(right \o PieceText(@))]
                   ELSE <<Lit(right)>> \o farRight
  IN  newLeft \o <<Ann(furigana)>> \o newRight

SplitPieceDropsEmptyRemainders(res, subIdx, base, furigana) ==
  LET substring == PieceText(res[subIdx + 1])
      idx       == IndexOf(substring, base)
      left      == JsSlice(substring, 0, idx)
      right     == RightRemainder(substring, idx, base)
  IN  JsSlice(res, 0, subIdx)
        \o (IF left = <<>> THEN <<>> ELSE <<Lit(left)>>)
        \o <<Ann(furigana)>>
        \o (IF right = <<>> THEN <<>> ELSE <<Lit(right)>>)
        \o JsSlice(res, subIdx + 1, Len(res))

SplitPieceSkipsEmptyLeft(res, subIdx, base, furigana) ==
  LET substring == PieceText(res[subIdx + 1])
      idx       == IndexOf(substring, base)
      left      == JsSlice(substring, 0, idx)
      right     == RightRemainder(substring, idx, base)
  IN  JsSlice(res, 0, subIdx)
        \o (IF left = <<>> THEN <<>> ELSE <<Lit(left)>>)
        \o <<Ann(furigana), Lit(right)>>
        \o JsSlice(res, subIdx + 1, Len(res))

(* One pass of the body of the while loop.                                 *)
SplitPiece(res, subIdx, base, furigana) ==
  LET substring == PieceText(res[subIdx + 1])
      farLeft   == JsSlice(res, 0, subIdx)
      farRight  == JsSlice(res, subIdx + 1, Len(res))
      idx       == IndexOf(substring, base)
      left      == JsSlice(substring, 0, idx)
      right     == RightRemainder(substring, idx, base)
      newLeft   == IF farLeft # <<>> /\ farLeft[Len(farLeft)].isString
                   THEN [farLeft EXCEPT ![Len(farLeft)] = Lit(@.str \o left)]
                   ELSE Append(farLeft, Lit(left))
      newRight  == IF farRight # <<>> /\ farRight[1].isString
                   THEN [farRight EXCEPT ![1] = Lit(right \o @.str)]
                   ELSE <<Lit(right)>> \o farRight
  IN  newLeft \o <<Ann(furigana)>> \o newRight

RubyOpen == "<ruby>"

RtOpen == "<rt>"

RubyClose == "</rt></ruby>"

RenderSegment(seg) ==
  IF HasRt(seg) THEN <<RubyOpen>> \o seg.ruby \o <<RtOpen>> \o seg.rt \o <<RubyClose>>
  ELSE seg.ruby

RenderFurigana(f) == Concat([i \in 1..Len(f) |-> RenderSegment(f[i])])

RenderPiece(x) == IF x.isString THEN x.str ELSE RenderFurigana(x.furigana)

RenderPieces(res) == Concat([i \in 1..Len(res) |-> RenderPiece(res[i])])

(* The while loop of one entry, run to its end. Entries that come from the *)
(* dictionary index have a segment with a reading, so their base is not    *)
(* empty and the loop ends.                                                *)
RECURSIVE SplitWhileFound(_, _)
SplitWhileFound(res, e) ==
  LET subIdx == FindPiece(res, e.base)
  IN  IF subIdx < 0 THEN res
      ELSE SplitWhileFound(SplitPiece(res, subIdx, e.base, e.furigana), e)

(* The for loop over the sorted entries.                                   *)
RECURSIVE SplitForEach(_, _)
SplitForEach(res, es) ==
  IF es = <<>> THEN res ELSE SplitForEach(SplitWhileFound(res, Head(es)), Tail(es))

(* applySentenceRubyTags as a function of its arguments.                   *)
applySentenceRubyTags(sentence, all) ==
  RenderPieces(SplitForEach(<<Lit(sentence)>>, StripAll(all)))

(* ------------------------- labels and readings ------------------------- *)

(* The value of an optional string that is not set.                        *)
Undefined == <<"undefined">>

(* JavaScript truthiness of an optional string.                            *)
Truthy(s) == s # Undefined /\ s # <<>>

(* The brackets that delimit a reading in a label, U+3010 and U+3011.      *)
LBracket == "["

RBracket == "]"

Space == " "

Newline == "\n"

(* What trim and \s take for white space, of the characters of the model.  *)
Whitespace == {Space, Newline}

Digits == {"1", "2"}

RECURSIVE TrimStart(_)
TrimStart(s) == IF s # <<>> /\ Head(s) \in Whitespace THEN TrimStart(Tail(s)) ELSE s

RECURSIVE TrimEnd(_)
TrimEnd(s) ==
  IF s # <<>> /\ s[Len(s)] \in Whitespace THEN TrimEnd(SubSeq(s, 1, Len(s) - 1)) ELSE s

(* String.prototype.trim                                                   *)
Trim(s) == TrimEnd(TrimStart(s))

(* Length of the longest prefix of s made of digits.                       *)
DigitPrefixLen(s) ==
  CHOOSE n \in 0..Len(s) :
    /\ \A i \in 1..n : s[i] \in Digits
    /\ n < Len(s) => s[n + 1] \notin Digits

(* Length of the longest prefix of s that does not contain the character c. *)
PrefixLenWithout(s, c) ==
  CHOOSE n \in 0..Len(s) :
    /\ \A i \in 1..n : s[i] # c
    /\ n < Len(s) => s[n + 1] = c

StripOrdinalLeavesWhitespace(s) ==
  LET n == DigitPrefixLen(s)
  IN  IF n >= 1 /\ Len(s) > n /\ s[n + 1] = "."
      THEN SubSeq(s, n + 2, Len(s))
      ELSE s

(* s.replace(/^\d+\.\s*/, '')                                              *)
StripOrdinal(s) ==
  LET n == DigitPrefixLen(s)
  IN  IF n >= 1 /\ Len(s) > n /\ s[n + 1] = "."
      THEN TrimStart(SubSeq(s, n + 2, Len(s)))
      ELSE s

(* s.match(/^([^[]+)(?:[([^]]+)])?/) with the reading brackets: matched is *)
(* FALSE for a null match; g2 is Undefined when the optional group did     *)
(* not take part.                                                          *)
MatchLabel(s) ==
  LET n    == PrefixLenWithout(s, LBracket)
      rest == SubSeq(s, n + 2, Len(s))
      m    == PrefixLenWithout(rest, RBracket)
  IN  IF n = 0 THEN [matched |-> FALSE, g1 |-> Undefined, g2 |-> Undefined]
      ELSE [ matched |-> TRUE,
             g1 |-> SubSeq(s, 1, n),
             g2 |-> IF Len(s) > n /\ m >= 1 /\ Len(rest) > m
                    THEN SubSeq(rest, 1, m)
                    ELSE Undefined ]

(* ------------------------------ word lines ----------------------------- *)

Key(word, reading) == word \o <<"-">> \o reading

BracketForm(word, reading) == word \o <<Space, LBracket>> \o reading \o <<RBracket>>

formatWordWithRubyPlainSegment(word, reading, map) ==
  IF ~Truthy(reading) \/ Key(word, reading) \notin DOMAIN map
  THEN [ result |-> IF Truthy(reading) THEN BracketForm(word, reading) ELSE word,
         hasData |-> TRUE,
         furiganaData |-> <<[ruby |-> word, rt |-> <<"x">>]>> ]
  ELSE [ result |-> RenderFurigana(map[Key(word, reading)]),
         hasData |-> TRUE,
         furiganaData |-> map[Key(word, reading)] ]

formatWordWithRuby(word, reading, map) ==
  IF ~Truthy(reading) THEN [result |-> word, hasData |-> FALSE, furiganaData |-> <<>>]
  ELSE IF Key(word, reading) \notin DOMAIN map
       THEN [result |-> BracketForm(word, reading), hasData |-> FALSE, furiganaData |-> <<>>]
       ELSE [ result |-> RenderFurigana(map[Key(word, reading)]),
              hasData |-> TRUE,
              furiganaData |-> map[Key(word, reading)] ]

HasAlternatives(wordInfo) == wordInfo.alternatives # <<>>

(* The word and the reading looked up for one alternative's label.         *)
AltWord(alternative) ==
  LET match == MatchLabel(alternative.reading)
  IN  IF match.matched /\ Trim(match.g1) # <<>> THEN Trim(match.g1) ELSE alternative.reading

AltReading(alternative) ==
  LET match == MatchLabel(alternative.reading)
  IN  IF match.matched /\ match.g2 # Undefined THEN Trim(match.g2) ELSE Undefined

Bullet1 == "> - "

Bullet2 == ">   - "

Bullet3 == ">     - "

CalloutHead == "> [!IchiMoe]- "

NoWordsLine ==
  "> *No word definitions found. The text might be too complex or ichi.moe might be having issues.*"

DefinitionLinesReversed(bullet, definitions) ==
  Concat([i \in 1..Len(definitions) |->
            <<bullet>> \o definitions[Len(definitions) + 1 - i] \o <<Newline>>])

DefinitionLines(bullet, definitions) ==
  Concat([i \in 1..Len(definitions) |-> <<bullet>> \o definitions[i] \o <<Newline>>])

AlternativeLines(alternative, map) ==
  <<Bullet2>> \o formatWordWithRuby(AltWord(alternative), AltReading(alternative), map).result
    \o <<Newline>> \o DefinitionLines(Bullet3, alternative.definitions)

(* The lines one word adds to analysisText.                                *)
WordLines(wordInfo, map) ==
  IF HasAlternatives(wordInfo)
  THEN <<Bullet1>> \o wordInfo.word \o <<Newline>>
         \o Concat([i \in 1..Len(wordInfo.alternatives) |->
                      AlternativeLines(wordInfo.alternatives[i], map)])
  ELSE <<Bullet1>> \o formatWordWithRuby(wordInfo.word, wordInfo.reading, map).result
         \o <<Newline>> \o DefinitionLines(Bullet2, wordInfo.definitions)

FuriganaIfFound(word, reading, map) ==
  LET f == formatWordWithRuby(word, reading, map)
  IN  IF f.hasData THEN <<f.furiganaData>> ELSE <<>>

(* The furigana arrays one word pushes onto allFurigana.                   *)
WordFurigana(wordInfo, map) ==
  IF HasAlternatives(wordInfo)
  THEN Concat([i \in 1..Len(wordInfo.alternatives) |->
                 FuriganaIfFound(AltWord(wordInfo.alternatives[i]),
                                 AltReading(wordInfo.alternatives[i]), map)])
  ELSE FuriganaIfFound(wordInfo.word, wordInfo.reading, map)

BuildAnalysisText(wordInfos, map) ==
  (IF Len(wordInfos) > 0
   THEN Concat([i \in 1..Len(wordInfos) |-> WordLines(wordInfos[i], map)])
   ELSE <<NoWordsLine, Newline>>)
    \o <<Newline>>

CollectFurigana(wordInfos, map) ==
  Concat([i \in 1..Len(wordInfos) |-> WordFurigana(wordInfos[i], map)])

(* loadFuriganaData: one map entry per dataset entry, a later entry with   *)
(* the same key replacing an earlier one.                                  *)
EntryKey(entry) == Key(entry.text, entry.reading)

BuildFuriganaMap(jmdictData) ==
  [ k \in { EntryKey(jmdictData[i]) : i \in 1..Len(jmdictData) } |->
      LET hits == { i \in 1..Len(jmdictData) : EntryKey(jmdictData[i]) = k }
      IN  jmdictData[CHOOSE i \in hits : \A j \in hits : i >= j].furigana ]

(* ------------- word lines of the revision without annotator ----------- *)

formatWordWithRubyStringAnyReading(word, reading, map) ==
  LET sameWord == { k \in DOMAIN map : OccursAt(k, word \o <<"-">>, 0) }
  IN  IF ~Truthy(reading) THEN word
      ELSE IF sameWord = {}
           THEN BracketForm(word, reading)
           ELSE RenderFurigana(map[CHOOSE k \in sameWord : TRUE])

(* formatWordWithRuby of main.ts, which returns the string only.           *)
formatWordWithRubyString(word, reading, map) ==
  IF ~Truthy(reading) THEN word
  ELSE IF Key(word, reading) \notin DOMAIN map
       THEN BracketForm(word, reading)
       ELSE RenderFurigana(map[Key(word, reading)])

PlainAlternativeLines(alternative, map) ==
  <<Bullet2>> \o formatWordWithRubyString(AltWord(alternative), AltReading(alternative), map)
    \o <<Newline>> \o DefinitionLines(Bullet3, alternative.definitions)

PlainWordLines(wordInfo, map) ==
  IF HasAlternatives(wordInfo)
  THEN <<Bullet1>> \o wordInfo.word \o <<Newline>>
         \o Concat([i \in 1..Len(wordInfo.alternatives) |->
                      PlainAlternativeLines(wordInfo.alternatives[i], map)])
  ELSE <<Bullet1>> \o formatWordWithRubyString(wordInfo.word, wordInfo.reading, map)
         \o <<Newline>> \o DefinitionLines(Bullet2, wordInfo.definitions)

PlainAnalysisTextAlwaysPlaceholder(info, map) ==
  <<Newline>> \o <<CalloutHead>> \o info.original \o <<Newline>>
    \o Concat([i \in 1..Len(info.words) |-> PlainWordLines(info.words[i], map)])
    \o <<NoWordsLine, Newline>>
    \o <<Newline>>

(* analysisText of main.ts: the line break, the header with the sentence   *)
(* as it is, the word lines or the placeholder, and the closing line break. *)
PlainAnalysisText(info, map) ==
  <<Newline>> \o <<CalloutHead>> \o info.original \o <<Newline>>
    \o (IF Len(info.words) > 0
        THEN Concat([i \in 1..Len(info.words) |-> PlainWordLines(info.words[i], map)])
        ELSE <<NoWordsLine, Newline>>)
    \o <<Newline>>

(* ------------------------- parseIchiMoeResponse ------------------------ *)
(* The response document is what the selectors of the parser see of it:    *)
(*   dsWords  texts of the '.ds-text .ds-word' elements                    *)
(*   rows     the '.gloss-row' elements: hidden, and glosses, the '.gloss' *)
(*            elements found in the row                                    *)
(* and of a gloss:                                                         *)
(*   rtext     text of '.gloss-rtext em'                                   *)
(*   dts       the '.gloss-content dt' elements: text, inAlternatives (the *)
(*             dt is under '.alternatives') and dd, the li elements of the *)
(*             dd that follows the dt                                      *)
(*   otherLis  the li elements of the gloss outside those dd               *)
(* and of a li: posDesc, glossDesc (texts of '.pos-desc', '.gloss-desc'),  *)
(* hasNote ('.sense-info-note' found), title, tooltip (its attributes).    *)
(* Markup that is missing shows as an empty sequence or an empty text.     *)

(* The emoji that marks a note.                                            *)
PointUp == "^"

Unknown == <<"unknown">>

JoinWithSpace(parts) ==
  Concat([i \in 1..Len(parts) |-> IF i = 1 THEN parts[i] ELSE <<Space>> \o parts[i]])

IsNonEmpty(s) == s # <<>>

TrimAll(texts) == [i \in 1..Len(texts) |-> Trim(texts[i])]

Romanization(document) ==
  LET romanizationParts == SelectSeq(TrimAll(document.dsWords), IsNonEmpty)
  IN  IF Len(romanizationParts) > 0 THEN JoinWithSpace(romanizationParts) ELSE Undefined

IsVisible(row) == ~row.hidden

(* $('.gloss-row').not('.hidden')                                          *)
VisibleRows(document) == SelectSeq(document.rows, IsVisible)

RowGlosses(rows) == Concat([i \in 1..Len(rows) |-> rows[i].glosses])

(* The glosses of $('.gloss-row').not('.hidden').first()                   *)
FirstVisibleRowGlosses(document) ==
  LET visible == VisibleRows(document)
  IN  IF Len(visible) > 0 THEN visible[1].glosses ELSE <<>>

(* The glosses of every row of $('.gloss-row').not('.hidden')              *)
AllVisibleRowGlosses(document) == RowGlosses(VisibleRows(document))

NoteText(li) == IF Truthy(li.title) THEN li.title ELSE li.tooltip

LiDefinition(li) ==
  LET posDesc   == Trim(li.posDesc)
      glossDesc == Trim(li.glossDesc)
  IN  IF glossDesc = <<>> THEN <<>>
      ELSE << (IF posDesc # <<>> THEN <<"(">> \o posDesc \o <<")", Space>> ELSE <<>>)
                \o glossDesc
                \o (IF li.hasNote /\ Truthy(NoteText(li))
                    THEN <<Space, "(", PointUp, Space>> \o NoteText(li) \o <<")">>
                    ELSE <<>>) >>

RECURSIVE WithoutRepeats(_)
WithoutRepeats(s) ==
  IF s = <<>> THEN <<>>
  ELSE LET front == WithoutRepeats(SubSeq(s, 1, Len(s) - 1))
       IN  IF \E i \in 1..Len(front) : front[i] = s[Len(s)]
           THEN front
           ELSE Append(front, s[Len(s)])

DefinitionsWithoutRepeats(lis) ==
  WithoutRepeats(Concat([i \in 1..Len(lis) |-> LiDefinition(lis[i])]))

Definitions(lis) == Concat([i \in 1..Len(lis) |-> LiDefinition(lis[i])])

(* $glossElement.find('li')                                                *)
GlossLis(gloss) == Concat([i \in 1..Len(gloss.dts) |-> gloss.dts[i].dd]) \o gloss.otherLis

IsAlternativeDt(dt) == dt.inAlternatives

(* $glossElement.find('.gloss-content .alternatives dt')                   *)
AlternativeDts(gloss) == SelectSeq(gloss.dts, IsAlternativeDt)

ParseAlternativeKeepsEmpty(dt) ==
  <<[reading |-> StripOrdinal(Trim(dt.text)), definitions |-> Definitions(dt.dd)]>>

ParseAlternative(dt) ==
  LET definitions == Definitions(dt.dd)
  IN  IF Len(definitions) > 0
      THEN <<[reading |-> StripOrdinal(Trim(dt.text)), definitions |-> definitions]>>
      ELSE <<>>

NoWord == [push |-> FALSE, threw |-> FALSE, wordInfo |-> <<>>]

ParseMultiWordOfFirstKept(gloss) ==
  LET romanizedText == Trim(gloss.rtext)
      dtElements    == AlternativeDts(gloss)
      baseWord      == IF romanizedText # <<>> THEN romanizedText ELSE Unknown
      alternatives  == Concat([i \in 1..Len(dtElements) |-> ParseAlternative(dtElements[i])])
      wordMatch     == MatchLabel(alternatives[1].reading)
      word          == IF wordMatch.matched /\ Trim(wordMatch.g1) # <<>>
                       THEN Trim(wordMatch.g1)
                       ELSE baseWord
  IN  IF Len(alternatives) > 0
      THEN [ push |-> TRUE, threw |-> FALSE,
             wordInfo |-> [ word |-> word, reading |-> Undefined, definitions |-> <<>>,
                            alternatives |-> alternatives ] ]
      ELSE NoWord

ParseMulti(gloss) ==
  LET romanizedText == Trim(gloss.rtext)
      dtElements    == AlternativeDts(gloss)
      baseWord      == IF romanizedText # <<>> THEN romanizedText ELSE Unknown
      alternatives  == Concat([i \in 1..Len(dtElements) |-> ParseAlternative(dtElements[i])])
      firstDtText   == StripOrdinal(Trim(dtElements[1].text))
      wordMatch     == MatchLabel(firstDtText)
      word          == IF wordMatch.matched /\ Trim(wordMatch.g1) # <<>>
                       THEN Trim(wordMatch.g1)
                       ELSE baseWord
  IN  IF Len(alternatives) > 0
      THEN [ push |-> TRUE, threw |-> FALSE,
             wordInfo |-> [ word |-> word, reading |-> Undefined, definitions |-> <<>>,
                            alternatives |-> alternatives ] ]
      ELSE NoWord

ParseLabelKeepsWhitespace(cleanedDtText) ==
  LET match == MatchLabel(cleanedDtText)
  IN  IF match.matched
      THEN [ word    |-> match.g1,
             reading |-> IF Truthy(match.g2) THEN match.g2 ELSE Undefined,
             threw   |-> FALSE ]
      ELSE [word |-> cleanedDtText, reading |-> Undefined, threw |-> FALSE]

ParseLabelUnguarded(cleanedDtText) ==
  LET match == MatchLabel(cleanedDtText)
  IN  [ word    |-> IF match.matched THEN Trim(match.g1) ELSE <<>>,
        reading |-> IF match.matched /\ Truthy(match.g2) THEN Trim(match.g2) ELSE Undefined,
        threw   |-> ~match.matched ]

(* The word and the reading of a label; reading match[1] of a null match   *)
(* would throw, the code tests the match first.                            *)
ParseLabel(cleanedDtText) ==
  LET match == MatchLabel(cleanedDtText)
  IN  IF match.matched
      THEN [ word    |-> Trim(match.g1),
             reading |-> IF Truthy(match.g2) THEN Trim(match.g2) ELSE Undefined,
             threw   |-> FALSE ]
      ELSE [word |-> cleanedDtText, reading |-> Undefined, threw |-> FALSE]

ParseSingle(gloss) ==
  LET romanizedText == Trim(gloss.rtext)
      dtText        == IF gloss.dts # <<>> THEN Trim(gloss.dts[1].text) ELSE <<>>
      label         == IF dtText # <<>>
                       THEN ParseLabel(StripOrdinal(dtText))
                       ELSE [word |-> romanizedText, reading |-> Undefined, threw |-> FALSE]
      definitions   == Definitions(GlossLis(gloss))
  IN  IF label.threw THEN [push |-> FALSE, threw |-> TRUE, wordInfo |-> <<>>]
      ELSE IF label.word = <<>> THEN NoWord
      ELSE IF Len(definitions) > 0
           THEN [ push |-> TRUE, threw |-> FALSE,
                  wordInfo |-> [ word |-> label.word, reading |-> label.reading,
                                 definitions |-> definitions, alternatives |-> <<>> ] ]
           ELSE NoWord

(* The body of glossElements.each for one gloss.                           *)
ParseGlossElement(gloss) ==
  IF Len(AlternativeDts(gloss)) > 1 THEN ParseMulti(gloss) ELSE ParseSingle(gloss)

(* ------------------------------- inputs -------------------------------- *)

Sentences == SeqsUpTo(Alphabet, MaxSentenceLen) \ {<<>>}

Entries(n) == SeqsUpTo(Segments, n) \ {<<>>}

(* The lists of entries that hold at most n segments together.            *)
RECURSIVE EntryLists(_)
EntryLists(n) ==
  IF n = 0 THEN {<<>>}
  ELSE {<<>>} \cup
       UNION { LET rests == EntryLists(n - k)
               IN  { <<e>> \o rest : e \in [1..k -> Segments], rest \in rests } :
               k \in 1..n }

(* The dataset entry that a furigana array belongs to.                     *)
JmdictEntryOf(f) ==
  [ text     |-> Concat(RubyTexts(f)),
    reading  |-> Concat([i \in 1..Len(f) |-> IF HasRt(f[i]) THEN f[i].rt ELSE f[i].ruby]),
    furigana |-> f ]

JmdictFixture ==
  << JmdictEntryOf(<<[ruby |-> <<"a">>, rt |-> <<"x">>]>>),
     JmdictEntryOf(<<[ruby |-> <<"a">>, rt |-> <<"x">>], [ruby |-> <<"b">>, rt |-> <<"x">>]>>),
     JmdictEntryOf(<<[ruby |-> <<"b">>, rt |-> <<"x">>], [ruby |-> <<"a">>, rt |-> NoReading]>>) >>

RECURSIVE SubList(_, _)
SubList(list, keep) ==
  IF list = <<>> THEN <<>>
  ELSE SubList(SubSeq(list, 1, Len(list) - 1), keep)
         \o (IF Len(list) \in keep THEN <<list[Len(list)]>> ELSE <<>>)

(* The index after a load of any part of the dataset; the empty index is   *)
(* the one left by a load that failed.                                     *)
Dictionaries ==
  { BuildFuriganaMap(SubList(JmdictFixture, keep)) : keep \in SUBSET (1..Len(JmdictFixture)) }

MaxEntries == 3

(* Entries that share a base: two readings of 'a', two of 'aa', and 'ab',  *)
(* whose base contains 'a'.                                                *)
HomographEntries ==
  { <<[ruby |-> <<"a">>, rt |-> <<"x">>]>>,
    <<[ruby |-> <<"a">>, rt |-> <<"y">>]>>,
    <<[ruby |-> <<"a">>, rt |-> <<"x">>], [ruby |-> <<"a">>, rt |-> <<"x">>]>>,
    <<[ruby |-> <<"a">>, rt |-> <<"y">>], [ruby |-> <<"a">>, rt |-> <<"y">>]>>,
    <<[ruby |-> <<"a">>, rt |-> <<"x">>], [ruby |-> <<"b">>, rt |-> <<"x">>]>> }

SomeDefinition == <<"d">>

SingleWord(w, r) ==
  [word |-> w, reading |-> r, definitions |-> <<SomeDefinition>>, alternatives |-> <<>>]

MultiWord(w, labels) ==
  [ word |-> w, reading |-> Undefined, definitions |-> <<>>,
    alternatives |-> [i \in 1..Len(labels) |->
                        [reading |-> labels[i], definitions |-> <<SomeDefinition>>]] ]

WordInfos ==
  { SingleWord(<<"a">>, <<"x">>),
    SingleWord(<<"a">>, <<"y">>),
    SingleWord(<<"a">>, Undefined),
    SingleWord(<<"b">>, Undefined),
    SingleWord(<<"a", "b">>, <<"x", "x">>),
    SingleWord(<<"b", "a">>, <<"x", "a">>),
    MultiWord(<<"a">>, << <<"a", Space, LBracket, "x", RBracket>>,
                          <<"a", Space, LBracket, "y", RBracket>> >>),
    MultiWord(<<"b">>, << <<"b">>, <<"b", "a", Space, LBracket, "x", "a", RBracket>> >>) }

Li(posDesc, glossDesc) ==
  [posDesc |-> posDesc, glossDesc |-> glossDesc, hasNote |-> FALSE,
   title |-> Undefined, tooltip |-> Undefined]

LiWithNote(glossDesc, title, tooltip) ==
  [posDesc |-> <<>>, glossDesc |-> glossDesc, hasNote |-> TRUE,
   title |-> title, tooltip |-> tooltip]

Dt(text, dd) == [text |-> text, inAlternatives |-> TRUE, dd |-> dd]

Gloss(rtext, dts, otherLis) == [rtext |-> rtext, dts |-> dts, otherLis |-> otherLis]

LabelWithReading == <<"a", Space, LBracket, "x", RBracket>>

(* Word blocks: a label with a reading; no label but a romanized token; a  *)
(* label whose items have no gloss text; a label that starts with the      *)
(* bracket; a label that is only an ordinal; two alternatives; no markup.  *)
Glosses ==
  { Gloss(<<"r">>, <<Dt(LabelWithReading, <<Li(<<"n">>, <<"g">>)>>)>>, <<>>),
    Gloss(<<Space, "r">>, <<>>, <<Li(<<>>, <<"g">>)>>),
    Gloss(<<"r">>, <<Dt(<<"a">>, <<Li(<<"n">>, <<Space>>)>>)>>, <<>>),
    Gloss(<<>>, <<Dt(<<LBracket, "x", RBracket>>, <<LiWithNote(<<"g">>, Undefined, <<"t">>)>>)>>, <<>>),
    Gloss(<<>>, <<Dt(<<"1", ".">>, <<Li(<<>>, <<"g">>)>>)>>, <<>>),
    Gloss(<<"r">>,
          << Dt(<<"1", ".", Space>> \o LabelWithReading, <<Li(<<"n">>, <<"g">>)>>),
             Dt(<<"2", ".", Space, "a", Space, LBracket, "y", RBracket>>,
                <<Li(<<"n">>, <<"g">>), Li(<<"n">>, <<"g">>)>>) >>,
          <<>>),
    Gloss(<<>>, <<>>, <<>>) }

(* Lists of glosses for rows number row, row + 1, ... MaxRows, holding at  *)
(* most blocks glosses together.                                           *)
RECURSIVE RowLists(_, _)
RowLists(rowsLeft, blocks) ==
  IF rowsLeft = 0 THEN {<<>>}
  ELSE {<<>>} \cup
       UNION { LET rests == RowLists(rowsLeft - 1, blocks - k)
               IN  { <<[hidden |-> h, glosses |-> gs]>> \o rest :
                       h \in BOOLEAN, gs \in [1..k -> Glosses], rest \in rests } :
               k \in 0..blocks }

DsWordLists == { <<>>, <<<<"r", Space>>, <<Space>>, <<"s">>>> }

(* Responses of at most maxRows rows that hold at most maxBlocks word      *)
(* blocks together.                                                        *)
Documents(maxRows, maxBlocks) ==
  { [dsWords |-> ds, rows |-> rows] : ds \in DsWordLists, rows \in RowLists(maxRows, maxBlocks) }

SubmittedTexts == { <<"a">>, <<"a", "b">> }

(* Labels of word blocks. Every text over the characters that matter to    *)
(* the label parse, up to MaxLabelLen characters ...                       *)
LabelAlphabet == {"a", Space, LBracket, RBracket, "1", "."}

ShortLabels == SeqsUpTo(LabelAlphabet, MaxLabelLen)

Ordinals == { <<>>, <<"1", ".">>, <<"1", ".", Space>>, <<"2", "1", ".", Space, Space>> }

(* ... and longer ones put together from an ordinal, a headword, a         *)
(* bracketed reading and the whitespace around them.                       *)
LongLabels ==
  { o \o w \o s \o r \o e :
      o \in Ordinals,
      w \in { <<"a">>, <<"a", Space, "b">> },
      s \in { <<>>, <<Space>> },
      r \in { <<>>, <<LBracket, "x", RBracket>>, <<LBracket, Space, "x", "y", Space, RBracket>> },
      e \in { <<>>, <<Space>> } }

Labels == ShortLabels \cup LongLabels

(* The list items under a label: one; the same one twice; one without a    *)
(* part of speech, one without gloss text and one with a note; none with   *)
(* gloss text.                                                             *)
DdChoices ==
  { <<Li(<<"n">>, <<"g">>)>>,
    <<Li(<<"n">>, <<"g">>), Li(<<"n">>, <<"g">>)>>,
    <<Li(<<>>, <<"h", Space>>), Li(<<"n">>, <<Space>>), LiWithNote(<<"g">>, Undefined, <<"t">>)>>,
    <<Li(<<"n">>, <<Space>>)>> }

RomanizedTexts == { <<>>, <<"r">> }

(* Word blocks with one label, or with no label at all.                    *)
SingleBlocks(labels) ==
  { Gloss(rtext, <<Dt(label, dd)>>, <<>>) :
      rtext \in RomanizedTexts, label \in labels, dd \in DdChoices }
    \cup { Gloss(rtext, <<>>, lis) : rtext \in RomanizedTexts, lis \in DdChoices }

AlternativeLabels ==
  { <<"a", Space, LBracket, "x", RBracket>>,
    <<"1", ".", Space, "a", Space, LBracket, "x", RBracket>>,
    <<Space, "2", ".", "a", LBracket, Space, "y", RBracket, Space>>,
    <<"b", LBracket, "x", RBracket>>,
    <<"a">>,
    <<"1", ".">>,
    <<LBracket, "x", RBracket>> }

RECURSIVE AlternativeLists(_)
AlternativeLists(n) ==
  IF n = 0 THEN {<<>>}
  ELSE { <<Dt(label, dd)>> \o rest :
           label \in AlternativeLabels, dd \in DdChoices, rest \in AlternativeLists(n - 1) }

(* Word blocks with two to maxAlternatives labels in the alternatives list. *)
MultiBlocks(maxAlternatives) ==
  { Gloss(rtext, dts, <<>>) :
      rtext \in RomanizedTexts,
      dts \in UNION { AlternativeLists(n) : n \in 2..maxAlternatives } }

(* A response with one visible row that holds one word block.              *)
BlockDocuments(blocks) ==
  { [dsWords |-> <<>>, rows |-> <<[hidden |-> FALSE, glosses |-> <<gloss>>]>>] :
      gloss \in blocks }

(* The text that was analysed: the trimmed selection, which can span       *)
(* lines, or the trimmed current line.                                     *)
AnalysedTexts == { <<"a">>, <<"a", "b">>, <<"a", Newline, "b">> }

(* Words to render: with a reading, without one, with a reading of two    *)
(* characters, with several definitions, with alternatives.                *)
RenderedWordInfos ==
  { SingleWord(<<"a">>, <<"x">>),
    SingleWord(<<"a">>, <<"y">>),
    SingleWord(<<"a">>, Undefined),
    SingleWord(<<"a", "b">>, <<"x", "x">>),
    MultiWord(<<"b">>, << <<"b">>, <<"b", "a", Space, LBracket, "x", "a", RBracket>> >>),
    [ word |-> <<"a">>, reading |-> <<"x">>, definitions |-> << <<"d">>, <<"d">>, <<"e">> >>,
      alternatives |-> <<>> ],
    [ word |-> <<"a">>, reading |-> Undefined, definitions |-> <<>>,
      alternatives |->
        << [reading |-> <<"a", Space, LBracket, "x", RBracket>>,
            definitions |-> << <<"e">>, <<"d">> >>],
           [reading |-> <<"a", Space, LBracket, "y", RBracket>>,
            definitions |-> << <<"d">> >>] >> ] }

(* ------------------------------- actions ------------------------------- *)

NoPosition == [line |-> -1, ch |-> -1]

NoEditor == [lines |-> <<>>, anchor |-> NoPosition, head |-> NoPosition]

NoResponse == [status |-> 0, body |-> <<>>]

(* loadFuriganaData: at is where it is, by who called it, dataset what it  *)
(* reads; previous is the index as it was when the call began, started and *)
(* failed count the calls and the calls that ended in the catch block, and *)
(* outcome is how the last call ended.                                     *)
NotLoading ==
  [ at |-> "idle", by |-> "none", dataset |-> <<>>, previous |-> <<>>,
    started |-> 0, failed |-> 0, outcome |-> "none" ]

CommandIdle ==
  /\ editor = NoEditor
  /\ invokedOn = NoEditor
  /\ textToAnalyze = <<>>
  /\ response = NoResponse
  /\ calls = <<>>
  /\ insertedAt = NoPosition

PluginIdle ==
  /\ loading = NotLoading
  /\ commandRegistered = FALSE
  /\ statusEl = 0

SessionIdle == CommandIdle /\ PluginIdle

AnnotateIdle ==
  /\ originalSentence = <<>>
  /\ allFurigana = <<>>
  /\ stripped = <<>>
  /\ entryIdx = 0
  /\ result = <<>>
  /\ output = <<>>

InsertIdle ==
  /\ sentenceInfo = [original |-> <<>>, romanization |-> Undefined, words |-> <<>>]
  /\ furiganaMap = <<>>
  /\ analysisText = <<>>
  /\ inserted = <<>>
  /\ notices = <<>>

EmptyDocument == [dsWords |-> <<>>, rows |-> <<>>]

ParseIdle ==
  /\ html = EmptyDocument
  /\ originalText = <<>>
  /\ romanization = Undefined
  /\ words = <<>>
  /\ glossQueue = <<>>

InitAnnotate ==
  /\ SessionIdle
  /\ pc = "annotate"
  /\ allFurigana \in EntryLists(MaxTotalSegs)
  /\ originalSentence \in Sentences
  /\ stripped = <<>>
  /\ entryIdx = 0
  /\ result = <<>>
  /\ output = <<>>
  /\ InsertIdle
  /\ ParseIdle

StripAndSort ==
  /\ pc = "annotate"
  /\ stripped' = StripAll(allFurigana)
  /\ result' = <<Lit(originalSentence)>>
  /\ entryIdx' = 1
  /\ pc' = "split"
  /\ UNCHANGED <<originalSentence, allFurigana, output, outsideAnnotate>>

Split ==
  /\ pc = "split"
  /\ entryIdx <= Len(stripped)
  /\ LET e == stripped[entryIdx]
         subIdx == FindPiece(result, e.base)
     IN  /\ subIdx >= 0
         /\ Len(result) + 2 <= MaxPieces
         /\ result' = SplitPiece(result, subIdx, e.base, e.furigana)
  /\ UNCHANGED <<pc, originalSentence, allFurigana, stripped, entryIdx, output, outsideAnnotate>>

NextEntry ==
  /\ pc = "split"
  /\ entryIdx <= Len(stripped)
  /\ FindPiece(result, stripped[entryIdx].base) < 0
  /\ entryIdx' = entryIdx + 1
  /\ UNCHANGED <<pc, originalSentence, allFurigana, stripped, result, output, outsideAnnotate>>

ReturnAnnotated ==
  /\ pc = "split"
  /\ entryIdx > Len(stripped)
  /\ output' = RenderPieces(result)
  /\ pc' = "annotated"
  /\ UNCHANGED <<originalSentence, allFurigana, stripped, entryIdx, result, outsideAnnotate>>

NextAnnotate == StripAndSort \/ Split \/ NextEntry \/ ReturnAnnotated

SpecAnnotate == InitAnnotate /\ [][NextAnnotate]_vars

(* The step StripAndSort as pc shows it; it is enabled whenever the        *)
(* function has been called.                                               *)
Started == pc = "annotate" /\ pc' = "split"

(* applySentenceRubyTags is synchronous code: it keeps running while it    *)
(* has a step to take.                                                     *)
InitAnnotateShort ==
  /\ SessionIdle
  /\ pc = "annotate"
  /\ allFurigana \in EntryLists(MaxTotalSegs - 1)
  /\ originalSentence \in SeqsUpTo(Alphabet, MaxSentenceLen - 1) \ {<<>>}
  /\ stripped = <<>>
  /\ entryIdx = 0
  /\ result = <<>>
  /\ output = <<>>
  /\ InsertIdle
  /\ ParseIdle

SpecAnnotateFair ==
  /\ InitAnnotateShort
  /\ [][NextAnnotate]_vars
  /\ WF_pc(Started)
  /\ WF_vars(Split)
  /\ WF_vars(NextEntry)
  /\ WF_vars(ReturnAnnotated)

(* applySentenceRubyTags on entries that share bases.                      *)
InitAnnotateHomographs ==
  /\ SessionIdle
  /\ pc = "annotate"
  /\ allFurigana \in SeqsUpTo(HomographEntries, MaxEntries)
  /\ originalSentence \in Sentences
  /\ stripped = <<>>
  /\ entryIdx = 0
  /\ result = <<>>
  /\ output = <<>>
  /\ InsertIdle
  /\ ParseIdle

SpecAnnotateHomographs == InitAnnotateHomographs /\ [][NextAnnotate]_vars

(* ---------------------------- insertAnalysis --------------------------- *)

InitInsert ==
  /\ SessionIdle
  /\ pc = "insert"
  /\ furiganaMap \in Dictionaries
  /\ \E wordInfos \in SeqsUpTo(WordInfos, MaxWords), original \in Sentences :
       sentenceInfo = [original |-> original, romanization |-> Undefined, words |-> wordInfos]
  /\ analysisText = <<>>
  /\ inserted = <<>>
  /\ notices = <<>>
  /\ AnnotateIdle
  /\ ParseIdle

(* insertAnalysis up to its call of applySentenceRubyTags.                 *)
BuildAnalysis ==
  /\ UNCHANGED sessionVars
  /\ pc = "insert"
  /\ analysisText' = BuildAnalysisText(sentenceInfo.words, furiganaMap)
  /\ allFurigana' = CollectFurigana(sentenceInfo.words, furiganaMap)
  /\ originalSentence' = sentenceInfo.original
  /\ pc' = "annotate"
  /\ UNCHANGED <<stripped, entryIdx, result, output, sentenceInfo, furiganaMap, inserted, notices>>
  /\ UNCHANGED parseVars

BlockHead(rubyTaggedSentence) == <<Newline, CalloutHead>> \o rubyTaggedSentence \o <<Newline>>

(* insertAnalysis after applySentenceRubyTags has returned.                *)
InsertBlock ==
  /\ UNCHANGED sessionVars
  /\ pc = "annotated"
  /\ inserted' = BlockHead(output) \o analysisText
  /\ notices' = Append(notices, [kind |-> "inserted", text |-> sentenceInfo.original])
  /\ pc' = "inserted"
  /\ UNCHANGED <<annotateVars, sentenceInfo, furiganaMap, analysisText, parseVars>>

(* editor.replaceRange throws: the catch block reports it.                 *)
InsertBlockThrows ==
  /\ UNCHANGED sessionVars
  /\ pc = "annotated"
  /\ notices' = Append(notices, [kind |-> "insert-error", text |-> <<>>])
  /\ pc' = "insert-failed"
  /\ UNCHANGED <<annotateVars, sentenceInfo, furiganaMap, analysisText, inserted, parseVars>>

NextInsert ==
  \/ BuildAnalysis
  \/ StripAndSort
  \/ Split
  \/ NextEntry
  \/ ReturnAnnotated
  \/ InsertBlock
  \/ InsertBlockThrows

SpecInsert == InitInsert /\ [][NextInsert]_vars

(* ------------------- insertAnalysis without annotator ------------------ *)

InitInsertPlain ==
  /\ SessionIdle
  /\ pc = "insert"
  /\ furiganaMap \in Dictionaries
  /\ \E wordInfos \in SeqsUpTo(RenderedWordInfos, MaxWords), original \in AnalysedTexts :
       sentenceInfo = [original |-> original, romanization |-> Undefined, words |-> wordInfos]
  /\ analysisText = <<>>
  /\ inserted = <<>>
  /\ notices = <<>>
  /\ AnnotateIdle
  /\ ParseIdle

(* insertAnalysis of main.ts.                                              *)
InsertPlain ==
  /\ UNCHANGED sessionVars
  /\ pc = "insert"
  /\ analysisText' = PlainAnalysisText(sentenceInfo, furiganaMap)
  /\ inserted' = analysisText'
  /\ notices' = Append(notices, [kind |-> "inserted", text |-> sentenceInfo.original])
  /\ pc' = "inserted"
  /\ UNCHANGED <<annotateVars, sentenceInfo, furiganaMap, parseVars>>

(* editor.replaceRange throws: the catch block reports it.                 *)
InsertPlainThrows ==
  /\ UNCHANGED sessionVars
  /\ pc = "insert"
  /\ analysisText' = PlainAnalysisText(sentenceInfo, furiganaMap)
  /\ notices' = Append(notices, [kind |-> "insert-error", text |-> <<>>])
  /\ pc' = "insert-failed"
  /\ UNCHANGED <<annotateVars, sentenceInfo, furiganaMap, inserted, parseVars>>

NextInsertPlain == InsertPlain \/ InsertPlainThrows

SpecInsertPlain == InitInsertPlain /\ [][NextInsertPlain]_vars

(* ------------------------ parseIchiMoeResponse -------------------------- *)

InitParse ==
  /\ SessionIdle
  /\ pc = "parse"
  /\ html \in Documents(MaxRows, MaxBlocks)
  /\ originalText \in SubmittedTexts
  /\ romanization = Undefined
  /\ words = <<>>
  /\ glossQueue = <<>>
  /\ AnnotateIdle
  /\ InsertIdle

(* main.ts: the romanization, and the glosses of the first visible row.    *)
SelectFirstRow ==
  /\ UNCHANGED sessionVars
  /\ pc = "parse"
  /\ romanization' = Romanization(html)
  /\ glossQueue' = FirstVisibleRowGlosses(html)
  /\ pc' = "glosses"
  /\ UNCHANGED <<html, originalText, words, annotateVars, insertVars>>

(* The revision with the annotator: the romanization, and the glosses of   *)
(* every visible row.                                                      *)
SelectVisibleRows ==
  /\ UNCHANGED sessionVars
  /\ pc = "parse"
  /\ romanization' = Romanization(html)
  /\ glossQueue' = AllVisibleRowGlosses(html)
  /\ pc' = "glosses"
  /\ UNCHANGED <<html, originalText, words, annotateVars, insertVars>>

ParseGloss ==
  /\ UNCHANGED sessionVars
  /\ pc = "glosses"
  /\ glossQueue # <<>>
  /\ LET parsed == ParseGlossElement(Head(glossQueue))
     IN  /\ pc' = IF parsed.threw THEN "threw" ELSE "glosses"
         /\ words' = IF parsed.push THEN Append(words, parsed.wordInfo) ELSE words
  /\ glossQueue' = Tail(glossQueue)
  /\ UNCHANGED <<html, originalText, romanization, annotateVars, insertVars>>

ReturnParsed ==
  /\ UNCHANGED sessionVars
  /\ pc = "glosses"
  /\ glossQueue = <<>>
  /\ sentenceInfo' = [original |-> originalText, romanization |-> romanization, words |-> words]
  /\ pc' = "parsed"
  /\ UNCHANGED <<parseVars, annotateVars, furiganaMap, analysisText, inserted, notices>>

NextParse == SelectFirstRow \/ ParseGloss \/ ReturnParsed

SpecParse == InitParse /\ [][NextParse]_vars

(* parseIchiMoeResponse on a response with one word block.                 *)
InitParseBlock ==
  /\ SessionIdle
  /\ pc = "parse"
  /\ \/ html \in BlockDocuments(SingleBlocks(Labels))
     \/ html \in BlockDocuments(MultiBlocks(MaxAlternatives))
  /\ originalText = <<"a">>
  /\ romanization = Undefined
  /\ words = <<>>
  /\ glossQueue = <<>>
  /\ AnnotateIdle
  /\ InsertIdle

SpecParseBlock == InitParseBlock /\ [][NextParse]_vars

NextParseAllRows == SelectVisibleRows \/ ParseGloss \/ ReturnParsed

SpecParseAllRows == InitParse /\ [][NextParseAllRows]_vars

(* ------------------- properties of the annotator ----------------------- *)

PieceTexts(res) == [i \in 1..Len(res) |-> PieceText(res[i])]

(* 0-based offset in the sentence of the first character of piece k.       *)
PieceStart(res, k) == Len(Concat(PieceTexts(SubSeq(res, 1, k - 1))))

AnnotatedSpans(res) ==
  { [start |-> PieceStart(res, k), furigana |-> res[k].furigana] :
      k \in { i \in 1..Len(res) : ~res[i].isString } }

(* The rendered string with the markup and the readings taken out again.   *)
RECURSIVE StripReadings(_, _)
StripReadings(out, inRt) ==
  IF out = <<>> THEN <<>>
  ELSE IF Head(out) = RubyOpen THEN StripReadings(Tail(out), FALSE)
  ELSE IF Head(out) = RtOpen THEN StripReadings(Tail(out), TRUE)
  ELSE IF Head(out) = RubyClose THEN StripReadings(Tail(out), FALSE)
  ELSE IF inRt THEN StripReadings(Tail(out), TRUE)
  ELSE <<Head(out)>> \o StripReadings(Tail(out), FALSE)

InLoop == pc \in {"split", "annotated"}

IsProperSubstring(a, b) == Len(a) < Len(b) /\ Includes(b, a)

(* The first entry of the input list whose trimmed core has the base b.    *)
FirstInputWithBase(b) ==
  LET hits == { i \in 1..Len(allFurigana) : StripEntry(allFurigana[i]).base = b }
  IN  StripEntry(allFurigana[CHOOSE i \in hits : \A j \in hits : i <= j])

(* C1: at every step of the splitting loop the literal pieces and the base *)
(* texts of the annotated pieces, concatenated in order, are the sentence, *)
(* and the returned string with markup and readings removed is the         *)
(* sentence.                                                               *)
C1_ConcatenationInvariant ==
  /\ InLoop => Concat(PieceTexts(result)) = originalSentence
  /\ pc = "annotated" => StripReadings(output, FALSE) = originalSentence

C1_Witness ==
  /\ pc = "annotated"
  /\ Cardinality({ k \in 1..Len(result) : ~result[k].isString /\ result[k].furigana # <<>> }) >= 2
  /\ \E k \in 1..Len(result) : result[k].isString /\ result[k].str # <<>>

(* C2 as claimed: whenever the base of A is a proper substring of the base *)
(* of B, every occurrence of B's base in the sentence is one annotated     *)
(* piece carrying B's segments.                                            *)
C2_EveryOccurrenceOfLongerIsOnePiece ==
  pc = "annotated" =>
    \A i, j \in 1..Len(stripped) :
      IsProperSubstring(stripped[i].base, stripped[j].base) =>
        \A p \in 0..Len(originalSentence) :
          OccursAt(originalSentence, stripped[j].base, p) =>
            [start |-> p, furigana |-> stripped[j].furigana] \in AnnotatedSpans(result)

(* C2 as amended: entries are processed longest base first whatever their  *)
(* input order, so while an entry is being processed no entry with a       *)
(* shorter base has annotated anything; and when annotate returns, every   *)
(* occurrence of an entry's base in the sentence is either one annotated   *)
(* piece carrying the segments of the first-listed entry with that base,   *)
(* or overlaps an annotated piece at least as long as that base: it is     *)
(* never broken up by an entry with a shorter base.                        *)
C2_LongestMatchPriority ==
  /\ pc = "split" =>
       /\ \A i, j \in 1..Len(stripped) :
            i < j => Len(stripped[i].base) >= Len(stripped[j].base)
       /\ entryIdx <= Len(stripped) =>
            \A k \in 1..Len(result) :
              ~result[k].isString =>
                Len(PieceText(result[k])) >= Len(stripped[entryIdx].base)
  /\ pc = "annotated" =>
       \A j \in 1..Len(stripped) :
         \A p \in 0..Len(originalSentence) :
           OccursAt(originalSentence, stripped[j].base, p) =>
             \/ [start |-> p, furigana |-> FirstInputWithBase(stripped[j].base).furigana]
                  \in AnnotatedSpans(result)
             \/ \E k \in 1..Len(result) :
                  /\ ~result[k].isString
                  /\ Len(PieceText(result[k])) >= Len(stripped[j].base)
                  /\ PieceStart(result, k) < p + Len(stripped[j].base)
                  /\ p < PieceStart(result, k) + Len(PieceText(result[k]))

(* The shorter entry comes first in the input list, the longer one is      *)
(* matched as one piece and the shorter one annotates another place.       *)
C2_Witness ==
  /\ pc = "annotated"
  /\ \E i, j \in 1..Len(allFurigana) :
       LET A == StripEntry(allFurigana[i])
           B == StripEntry(allFurigana[j])
       IN  /\ i < j
           /\ A.base # <<>>
           /\ IsProperSubstring(A.base, B.base)
           /\ \E s \in AnnotatedSpans(result) : s.furigana = B.furigana
           /\ \E s \in AnnotatedSpans(result) : s.furigana = A.furigana

(* C3: an annotated piece, once placed, keeps its place and its segments   *)
(* through every later split (no later entry matches, splits or replaces   *)
(* it), and every annotated piece lies on an occurrence of its own base    *)
(* text in the sentence.                                                   *)
C3_AnnotatedSpansAreStable ==
  [][ pc' \in {"split", "annotated"} =>
        /\ \A s \in AnnotatedSpans(result') :
             OccursAt(originalSentence, Concat(RubyTexts(s.furigana)), s.start)
        /\ pc = "split" =>
             /\ AnnotatedSpans(result) \subseteq AnnotatedSpans(result')
             /\ Cardinality({ k \in 1..Len(result) : ~result[k].isString })
                  <= Cardinality({ k \in 1..Len(result') : ~result'[k].isString }) ]_vars

(* A shorter entry whose base occurs inside an already annotated piece has *)
(* been processed and has left that piece alone.                           *)
C3_Witness ==
  /\ pc = "annotated"
  /\ \E k \in 1..Len(result) :
       /\ ~result[k].isString
       /\ \E j \in 1..Len(stripped) :
            /\ stripped[j].base # <<>>
            /\ IsProperSubstring(stripped[j].base, PieceText(result[k]))
            /\ \E s \in AnnotatedSpans(result) : s.furigana = stripped[j].furigana

IsCoreOf(s, arr) ==
  /\ s.base = Concat(RubyTexts(s.furigana))
  /\ IF \E m \in 1..Len(arr) : HasRt(arr[m])
     THEN \E i, j \in 1..Len(arr) :
            /\ i <= j
            /\ s.furigana = SubSeq(arr, i, j)
            /\ HasRt(arr[i])
            /\ HasRt(arr[j])
            /\ \A m \in 1..Len(arr) : (m < i \/ m > j) => ~HasRt(arr[m])
     ELSE s.furigana = <<>>

(* C6: every trimmed entry is the run of its input entry from the first    *)
(* reading-bearing segment to the last one (interior segments without a    *)
(* reading kept), with base the concatenation of the retained texts; an    *)
(* entry without any reading-bearing segment has an empty core.            *)
C6_CoreTrimming ==
  pc # "annotate" =>
    /\ Len(stripped) = Len(allFurigana)
    /\ \A k \in 1..Len(allFurigana) :
         \E j \in 1..Len(stripped) : IsCoreOf(stripped[j], allFurigana[k])
    /\ \A j \in 1..Len(stripped) :
         \E k \in 1..Len(allFurigana) : IsCoreOf(stripped[j], allFurigana[k])

(* An entry with a leading and a trailing segment without reading, and one *)
(* with an interior segment without reading.                               *)
C6_Witness ==
  /\ pc = "split"
  /\ \E k \in 1..Len(allFurigana) :
       LET arr == allFurigana[k]
       IN  /\ Len(arr) = 3
           /\ \/ ~HasRt(arr[1]) /\ HasRt(arr[2]) /\ ~HasRt(arr[3])
              \/ HasRt(arr[1]) /\ ~HasRt(arr[2]) /\ HasRt(arr[3])
           /\ \E j \in 1..Len(stripped) :
                /\ IsCoreOf(stripped[j], arr)
                /\ Len(stripped[j].furigana) \in {1, 3}

SomeBaseIsWholeSentence == \E j \in 1..Len(stripped) : stripped[j].base = originalSentence

(* C7 as claimed: with an entry whose base is the entire sentence, the     *)
(* piece sequence holds exactly one piece, the annotated entry.            *)
C7_SinglePieceOnly ==
  (pc = "annotated" /\ SomeBaseIsWholeSentence) =>
    Len(result) = 1 /\ ~result[1].isString

(* C7 as amended: with an entry whose base is the entire sentence,         *)
(* annotate returns the rendering of that entry alone (the first-listed    *)
(* one with that base), no literal text left over; the piece sequence      *)
(* holds that annotated piece between two empty-string literal pieces.     *)
C7_WholeSentenceEntry ==
  (pc = "annotated" /\ SomeBaseIsWholeSentence) =>
    LET f == FirstInputWithBase(originalSentence).furigana
    IN  /\ result = <<Lit(<<>>), Ann(f), Lit(<<>>)>>
        /\ output = RenderFurigana(f)

C7_Witness ==
  /\ pc = "annotated"
  /\ SomeBaseIsWholeSentence
  /\ Len(originalSentence) >= 2
  /\ Len(stripped) >= 2

(* C8 as claimed: the piece sequence never holds an empty-string literal.  *)
C8_NoEmptyLiteral ==
  InLoop => \A k \in 1..Len(result) : result[k].isString => result[k].str # <<>>

(* C8 as amended: a split replaces one literal piece by its left           *)
(* remainder, the annotated entry and its right remainder, and leaves all  *)
(* other pieces as they are; a remainder is kept as a literal piece of its *)
(* own also when it is the empty string, so every split makes the          *)
(* sequence two pieces longer.                                             *)
C8_SplitKeepsBothRemainders ==
  [][ (pc = "split" /\ result' # result) =>
        \E k \in 1..Len(result) :
          /\ result[k].isString
          /\ Len(result') = Len(result) + 2
          /\ SubSeq(result', 1, k - 1) = SubSeq(result, 1, k - 1)
          /\ SubSeq(result', k + 3, Len(result')) = SubSeq(result, k + 1, Len(result))
          /\ result'[k].isString
          /\ ~result'[k + 1].isString
          /\ result'[k + 2].isString
          /\ result'[k].str \o PieceText(result'[k + 1]) \o result'[k + 2].str = result[k].str ]_vars

(* A match at the very start of a literal piece has left an empty-string   *)
(* literal in front of the annotated piece, and a later split happened.    *)
C8_Witness ==
  /\ InLoop
  /\ Len(result) >= 5
  /\ result[1] = Lit(<<>>)
  /\ \E k \in 1..Len(result) : result[k].isString /\ result[k].str # <<>>

(* ------------------ properties of insertAnalysis ----------------------- *)

LookupPairs(wordInfo) ==
  IF HasAlternatives(wordInfo)
  THEN [i \in 1..Len(wordInfo.alternatives) |->
          <<AltWord(wordInfo.alternatives[i]), AltReading(wordInfo.alternatives[i])>>]
  ELSE << <<wordInfo.word, wordInfo.reading>> >>

(* Every (word, reading) pair the block looks up, in order.                *)
AllLookups == Concat([i \in 1..Len(sentenceInfo.words) |-> LookupPairs(sentenceInfo.words[i])])

HasEntry(pair) == Truthy(pair[2]) /\ Key(pair[1], pair[2]) \in DOMAIN furiganaMap

Overlaps(p, n, q, m) == p < q + m /\ q < p + n

(* An annotated piece lies on some character of the span of n characters   *)
(* at offset p.                                                            *)
SpanIsAnnotated(p, n) ==
  \E k \in 1..Len(result) :
    ~result[k].isString /\ Overlaps(p, n, PieceStart(result, k), Len(PieceText(result[k])))

(* The base of some contributed entry occurs in the sentence on some       *)
(* character of the span.                                                  *)
SomeBaseOccursOn(p, n) ==
  \E j \in 1..Len(stripped) :
    \E q \in 0..Len(originalSentence) :
      /\ OccursAt(originalSentence, stripped[j].base, q)
      /\ Overlaps(p, n, q, Len(stripped[j].base))

ContributesOnlyFoundEntries ==
  /\ Len(allFurigana) = Cardinality({ i \in 1..Len(AllLookups) : HasEntry(AllLookups[i]) })
  /\ \A k \in 1..Len(allFurigana) :
       \E i \in 1..Len(AllLookups) :
         /\ HasEntry(AllLookups[i])
         /\ allFurigana[k] = furiganaMap[Key(AllLookups[i][1], AllLookups[i][2])]

(* C5 as claimed: a word without a reading or without a dictionary entry   *)
(* contributes no entry, and wherever its text stands in the sentence the  *)
(* header has no annotated piece, whatever the other words are.            *)
C5_DegradedSpanAlwaysPlain ==
  pc = "inserted" =>
    /\ ContributesOnlyFoundEntries
    /\ \A i \in 1..Len(AllLookups) :
         ~HasEntry(AllLookups[i]) =>
           \A p \in 0..Len(originalSentence) :
             OccursAt(originalSentence, AllLookups[i][1], p) =>
               ~SpanIsAnnotated(p, Len(AllLookups[i][1]))

(* C5 as amended: a word without a reading or without a dictionary entry   *)
(* contributes no entry to the annotator (the entries are exactly those of *)
(* the pairs found in the index), and wherever its text stands in the      *)
(* sentence the header has plain text, unless the base of an entry         *)
(* contributed by another analysed word occurs on that span; when no word  *)
(* has an entry the header is the plain sentence.                          *)
C5_SilentDegrade ==
  /\ pc # "insert" => ContributesOnlyFoundEntries
  /\ pc = "inserted" =>
       /\ \A i \in 1..Len(AllLookups) :
            ~HasEntry(AllLookups[i]) =>
              \A p \in 0..Len(originalSentence) :
                (/\ OccursAt(originalSentence, AllLookups[i][1], p)
                 /\ ~SomeBaseOccursOn(p, Len(AllLookups[i][1])))
                  => ~SpanIsAnnotated(p, Len(AllLookups[i][1]))
       /\ (\A i \in 1..Len(AllLookups) : ~HasEntry(AllLookups[i])) =>
            inserted = BlockHead(sentenceInfo.original) \o analysisText

(* A word with a reading that the index lacks stands in the sentence as    *)
(* plain text while another word of the same analysis is annotated.        *)
C5_Witness ==
  /\ pc = "inserted"
  /\ \E i \in 1..Len(AllLookups) :
       /\ Truthy(AllLookups[i][2])
       /\ ~HasEntry(AllLookups[i])
       /\ \E p \in 0..Len(originalSentence) :
            /\ OccursAt(originalSentence, AllLookups[i][1], p)
            /\ ~SpanIsAnnotated(p, Len(AllLookups[i][1]))
  /\ \E k \in 1..Len(result) : ~result[k].isString

(* --------------------- properties of the parser ------------------------ *)

HasGlossText(li) == Trim(li.glossDesc) # <<>>

(* No list item of the gloss carries gloss text.                           *)
NoUsableItem(gloss) == \A i \in 1..Len(GlossLis(gloss)) : ~HasGlossText(GlossLis(gloss)[i])

(* The label of the gloss is there and the label pattern does not match    *)
(* it (it starts with the opening bracket).                                *)
LabelDoesNotMatch(gloss) ==
  /\ gloss.dts # <<>>
  /\ Trim(gloss.dts[1].text) # <<>>
  /\ StripOrdinal(Trim(gloss.dts[1].text)) # <<>>
  /\ Head(StripOrdinal(Trim(gloss.dts[1].text))) = LBracket

(* C9: the parser never raises, whatever block is next; it returns with    *)
(* original equal to the submitted text; an empty document gives no words  *)
(* and no romanization, and so does a document without a visible row or    *)
(* one whose first visible row has no list item with gloss text.           *)
C9_ParseNeverRaises ==
  /\ pc # "threw"
  /\ (pc = "glosses" /\ glossQueue # <<>>) => ~ParseGlossElement(Head(glossQueue)).threw
  /\ pc = "parsed" =>
       /\ sentenceInfo.original = originalText
       /\ html = EmptyDocument =>
            sentenceInfo.words = <<>> /\ sentenceInfo.romanization = Undefined
       /\ (\A r \in 1..Len(html.rows) : html.rows[r].hidden) => sentenceInfo.words = <<>>
       /\ (\A r \in 1..Len(html.rows) :
             (~html.rows[r].hidden /\ \A q \in 1..(r - 1) : html.rows[q].hidden) =>
               \A g \in 1..Len(html.rows[r].glosses) : NoUsableItem(html.rows[r].glosses[g]))
            => sentenceInfo.words = <<>>

(* A label the pattern does not match has been parsed, and the block       *)
(* became a word all the same.                                             *)
C9_Witness ==
  /\ pc = "parsed"
  /\ sentenceInfo.words # <<>>
  /\ \E g \in 1..Len(FirstVisibleRowGlosses(html)) :
       LabelDoesNotMatch(FirstVisibleRowGlosses(html)[g])

WordsOf(glosses) ==
  Concat([g \in 1..Len(glosses) |->
            IF ParseGlossElement(glosses[g]).push
            THEN <<ParseGlossElement(glosses[g]).wordInfo>>
            ELSE <<>>])

(* C10: the words of the result are those of the word blocks of the first  *)
(* row that is not hidden; no other row contributes.                       *)
C10_OnlyFirstVisibleRow ==
  pc = "parsed" => sentenceInfo.words = WordsOf(FirstVisibleRowGlosses(html))

(* ------------------- properties of one word block ---------------------- *)

(* The word block of a response that has one.                              *)
TheBlock == FirstVisibleRowGlosses(html)[1]

IsSingleBlock(gloss) == Len(AlternativeDts(gloss)) <= 1

(* The label of a single block as the parser reads it, '' without one.     *)
LabelText(gloss) == IF gloss.dts # <<>> THEN Trim(gloss.dts[1].text) ELSE <<>>

HasDefinitions(lis) == \E i \in 1..Len(lis) : HasGlossText(lis[i])

NoBrackets(s) == \A i \in 1..Len(s) : s[i] \notin {LBracket, RBracket}

(* s starts with one or more digits and a dot.                             *)
HasOrdinalPrefix(s) ==
  \E n \in 1..(Len(s) - 1) : s[n + 1] = "." /\ \A i \in 1..n : s[i] \in Digits

(* label is a headword followed by a reading in brackets, the opening      *)
(* bracket at position i.                                                  *)
IsWordWithReading(label, i) ==
  /\ i \in 2..(Len(label) - 2)
  /\ label[i] = LBracket
  /\ label[Len(label)] = RBracket
  /\ NoBrackets(SubSeq(label, 1, i - 1))
  /\ NoBrackets(SubSeq(label, i + 1, Len(label) - 1))

(* C11: a single block whose label is a headword, or a headword followed   *)
(* by a reading in brackets, gives the word that is the text before the    *)
(* bracket and the reading that is the text between the brackets, both     *)
(* trimmed; without brackets it gives the label as word and no reading.    *)
C11_WordAndReadingFromLabel ==
  (pc = "parsed" /\ IsSingleBlock(TheBlock) /\ HasDefinitions(GlossLis(TheBlock))) =>
    LET label == LabelText(TheBlock)
    IN  /\ (label # <<>> /\ NoBrackets(label) /\ ~HasOrdinalPrefix(label)) =>
              /\ Len(sentenceInfo.words) = 1
              /\ sentenceInfo.words[1].word = label
              /\ sentenceInfo.words[1].reading = Undefined
        /\ \A i \in 1..Len(label) :
             (IsWordWithReading(label, i) /\ ~HasOrdinalPrefix(label)) =>
               /\ Len(sentenceInfo.words) = 1
               /\ sentenceInfo.words[1].word = Trim(SubSeq(label, 1, i - 1))
               /\ sentenceInfo.words[1].reading = Trim(SubSeq(label, i + 1, Len(label) - 1))

(* A label with whitespace before the bracket and inside the brackets has  *)
(* been parsed into a word and a reading.                                  *)
C11_Witness ==
  /\ pc = "parsed"
  /\ IsSingleBlock(TheBlock)
  /\ \E i \in 1..Len(LabelText(TheBlock)) :
       /\ IsWordWithReading(LabelText(TheBlock), i)
       /\ ~HasOrdinalPrefix(LabelText(TheBlock))
       /\ LabelText(TheBlock)[i - 1] = Space
       /\ LabelText(TheBlock)[i + 1] = Space
  /\ Len(sentenceInfo.words) = 1
  /\ sentenceInfo.words[1].reading \notin {Undefined, <<>>}

(* label is digits, a dot, whitespace up to position k, and then the rest. *)
IsOrdinalThenRest(label, k) ==
  /\ k \in 2..Len(label)
  /\ \E n \in 1..(k - 1) :
       /\ \A i \in 1..n : label[i] \in Digits
       /\ label[n + 1] = "."
       /\ \A i \in (n + 2)..k : label[i] = Space
  /\ k < Len(label) => label[k + 1] # Space

DtHasDefinitions(dt) == HasDefinitions(dt.dd)

(* The alternative labels that have a definition.                          *)
LabelsWithDefinitions(gloss) == SelectSeq(AlternativeDts(gloss), DtHasDefinitions)

(* C12: a label that starts with an ordinal (digits, a dot, whitespace) is *)
(* parsed as the rest of it is: in the single case the word and the        *)
(* reading are those of the rest, in the multi case the reading label of   *)
(* the alternative is the rest.                                            *)
C12_OrdinalPrefixStripped ==
  pc = "parsed" =>
    /\ (IsSingleBlock(TheBlock) /\ HasDefinitions(GlossLis(TheBlock))) =>
         LET label == LabelText(TheBlock)
         IN  \A k \in 1..Len(label) :
               IsOrdinalThenRest(label, k) =>
                 LET rest == SubSeq(label, k + 1, Len(label))
                 IN  /\ rest = <<>> => sentenceInfo.words = <<>>
                     /\ (rest # <<>> /\ NoBrackets(rest)) =>
                          /\ Len(sentenceInfo.words) = 1
                          /\ sentenceInfo.words[1].word = rest
                          /\ sentenceInfo.words[1].reading = Undefined
                     /\ \A i \in 1..Len(rest) :
                          IsWordWithReading(rest, i) =>
                            /\ Len(sentenceInfo.words) = 1
                            /\ sentenceInfo.words[1].word = Trim(SubSeq(rest, 1, i - 1))
                            /\ sentenceInfo.words[1].reading
                                 = Trim(SubSeq(rest, i + 1, Len(rest) - 1))
    /\ (~IsSingleBlock(TheBlock) /\ LabelsWithDefinitions(TheBlock) # <<>>) =>
         /\ Len(sentenceInfo.words) = 1
         /\ Len(sentenceInfo.words[1].alternatives) = Len(LabelsWithDefinitions(TheBlock))
         /\ \A j \in 1..Len(LabelsWithDefinitions(TheBlock)) :
              LET label == Trim(LabelsWithDefinitions(TheBlock)[j].text)
              IN  \A k \in 1..Len(label) :
                    IsOrdinalThenRest(label, k) =>
                      sentenceInfo.words[1].alternatives[j].reading
                        = SubSeq(label, k + 1, Len(label))

(* A block with alternatives has been parsed whose label with definitions  *)
(* has an ordinal, whitespace after it and a rest.                         *)
C12_Witness ==
  /\ pc = "parsed"
  /\ ~IsSingleBlock(TheBlock)
  /\ Len(sentenceInfo.words) = 1
  /\ \E j \in 1..Len(LabelsWithDefinitions(TheBlock)) :
       \E k \in 3..Len(Trim(LabelsWithDefinitions(TheBlock)[j].text)) :
         /\ IsOrdinalThenRest(Trim(LabelsWithDefinitions(TheBlock)[j].text), k)
         /\ k < Len(Trim(LabelsWithDefinitions(TheBlock)[j].text))
         /\ Trim(LabelsWithDefinitions(TheBlock)[j].text)[k] = Space

(* The label gives no headword: there is none, or it is only an ordinal.   *)
LabelHasNoHeadword(label) ==
  \/ label = <<>>
  \/ IsOrdinalThenRest(label, Len(label))

(* C13: in the single case a block with definitions whose label gives no   *)
(* headword gets the romanized token as its word, with no reading, when it *)
(* has one; the block is left out for lack of a word only when the label   *)
(* and the romanized token are both empty.                                 *)
C13_RomanizedFallback ==
  (pc = "parsed" /\ IsSingleBlock(TheBlock) /\ HasDefinitions(GlossLis(TheBlock))) =>
    /\ (LabelHasNoHeadword(LabelText(TheBlock)) /\ Trim(TheBlock.rtext) # <<>>) =>
         /\ Len(sentenceInfo.words) = 1
         /\ sentenceInfo.words[1].word = Trim(TheBlock.rtext)
         /\ sentenceInfo.words[1].reading = Undefined
    /\ sentenceInfo.words = <<>> =>
         (LabelText(TheBlock) = <<>> /\ Trim(TheBlock.rtext) = <<>>)

IsSingleShape(wordInfo) ==
  /\ wordInfo.alternatives = <<>>
  /\ Len(wordInfo.definitions) >= 1
  /\ \A i \in 1..Len(wordInfo.definitions) : wordInfo.definitions[i] # <<>>

IsAlternativesShape(wordInfo) ==
  /\ wordInfo.reading = Undefined
  /\ wordInfo.definitions = <<>>
  /\ Len(wordInfo.alternatives) >= 1
  /\ \A j \in 1..Len(wordInfo.alternatives) :
       /\ Len(wordInfo.alternatives[j].definitions) >= 1
       /\ \A i \in 1..Len(wordInfo.alternatives[j].definitions) :
            wordInfo.alternatives[j].definitions[i] # <<>>

IsWordAnalysis(wordInfo) ==
  /\ wordInfo.word # <<>>
  /\ wordInfo.word # Undefined
  /\ IsSingleShape(wordInfo) \/ IsAlternativesShape(wordInfo)
  /\ ~(IsSingleShape(wordInfo) /\ IsAlternativesShape(wordInfo))

(* The block has no definition where its case looks for them.              *)
YieldsNoDefinitions(gloss) ==
  IF IsSingleBlock(gloss)
  THEN ~HasDefinitions(GlossLis(gloss))
  ELSE LabelsWithDefinitions(gloss) = <<>>

(* C14: every word the parser has collected, and every word of its result, *)
(* has a non-empty word and exactly one of the two shapes, with at least   *)
(* one definition, or at least one alternative and at least one definition *)
(* in every alternative; a block without definitions adds no word.         *)
C14_WordAnalysisInvariant ==
  /\ \A i \in 1..Len(words) : IsWordAnalysis(words[i])
  /\ pc = "parsed" =>
       /\ \A i \in 1..Len(sentenceInfo.words) : IsWordAnalysis(sentenceInfo.words[i])
       /\ YieldsNoDefinitions(TheBlock) => sentenceInfo.words = <<>>

(* A block with alternatives has been parsed and one of its labels, having *)
(* no definition, is not among the alternatives of the word.               *)
C14_Witness ==
  /\ pc = "parsed"
  /\ ~IsSingleBlock(TheBlock)
  /\ Len(sentenceInfo.words) = 1
  /\ Len(sentenceInfo.words[1].alternatives) < Len(AlternativeDts(TheBlock))

(* The label without its ordinal.                                          *)
LabelAfterOrdinal(label) ==
  IF \E k \in 1..Len(label) : IsOrdinalThenRest(label, k)
  THEN SubSeq(label, 1 + (CHOOSE k \in 1..Len(label) : IsOrdinalThenRest(label, k)), Len(label))
  ELSE label

(* The text of the label before its bracket, trimmed; the empty text when  *)
(* the label is empty or starts with the bracket.                          *)
HeadwordPortion(label) ==
  IF \E i \in 1..Len(label) : label[i] = LBracket
  THEN Trim(SubSeq(label, 1, (CHOOSE i \in 1..Len(label) :
                                 label[i] = LBracket /\ \A q \in 1..(i - 1) : label[q] # LBracket) - 1))
  ELSE label

UsableItems(lis) == SelectSeq(lis, HasGlossText)

(* C15 as amended: a block with more than one alternative label gives one  *)
(* word whose                                                              *)
(* alternatives are, in document order, the labels that have a definition, *)
(* each with its label without the ordinal as reading and the definitions  *)
(* of its own list; the word is the headword portion of the first label    *)
(* (the romanized token, or 'unknown' without one, when that portion is    *)
(* empty).                                                                 *)
C15_AlternativesInDocumentOrder ==
  (pc = "parsed" /\ ~IsSingleBlock(TheBlock) /\ LabelsWithDefinitions(TheBlock) # <<>>) =>
    LET kept  == LabelsWithDefinitions(TheBlock)
        first == LabelAfterOrdinal(Trim(AlternativeDts(TheBlock)[1].text))
    IN  /\ Len(sentenceInfo.words) = 1
        /\ Len(sentenceInfo.words[1].alternatives) = Len(kept)
        /\ \A j \in 1..Len(kept) :
             /\ sentenceInfo.words[1].alternatives[j].reading
                  = LabelAfterOrdinal(Trim(kept[j].text))
             /\ Len(sentenceInfo.words[1].alternatives[j].definitions)
                  = Len(UsableItems(kept[j].dd))
        /\ HeadwordPortion(first) # <<>> => sentenceInfo.words[1].word = HeadwordPortion(first)
        /\ HeadwordPortion(first) = <<>> =>
             sentenceInfo.words[1].word
               = (IF Trim(TheBlock.rtext) # <<>> THEN Trim(TheBlock.rtext) ELSE Unknown)

(* The first label has no definition and another headword than the second, *)
(* which has one: the word is the headword of the first.                   *)
C15_Witness ==
  /\ pc = "parsed"
  /\ ~IsSingleBlock(TheBlock)
  /\ Len(sentenceInfo.words) = 1
  /\ ~DtHasDefinitions(AlternativeDts(TheBlock)[1])
  /\ HeadwordPortion(LabelAfterOrdinal(Trim(AlternativeDts(TheBlock)[1].text))) = <<"b">>
  /\ HeadwordPortion(sentenceInfo.words[1].alternatives[1].reading) = <<"a">>
  /\ sentenceInfo.words[1].word = <<"b">>

(* C15 as claimed: the word of a block with alternatives is the headword   *)
(* portion of its first label, whatever that label is.                     *)
C15_WordIsHeadwordOfFirstLabel ==
  (pc = "parsed" /\ ~IsSingleBlock(TheBlock) /\ LabelsWithDefinitions(TheBlock) # <<>>) =>
    /\ Len(sentenceInfo.words) = 1
    /\ sentenceInfo.words[1].word
         = HeadwordPortion(LabelAfterOrdinal(Trim(AlternativeDts(TheBlock)[1].text)))

(* One definition per list item with gloss text, in the order of the items. *)
DefinitionsInOrder(lis) ==
  [k \in 1..Len(UsableItems(lis)) |-> LiDefinition(UsableItems(lis)[k])[1]]

(* C16: the definitions of a word, and of each alternative, are one string *)
(* per list item with gloss text, in document order, equal items giving    *)
(* equal definitions that are both kept.                                   *)
C16_DefinitionsKeepOrderAndRepeats ==
  (pc = "parsed" /\ sentenceInfo.words # <<>>) =>
    IF IsSingleBlock(TheBlock)
    THEN sentenceInfo.words[1].definitions = DefinitionsInOrder(GlossLis(TheBlock))
    ELSE \A j \in 1..Len(sentenceInfo.words[1].alternatives) :
           sentenceInfo.words[1].alternatives[j].definitions
             = DefinitionsInOrder(LabelsWithDefinitions(TheBlock)[j].dd)

(* A word has been parsed that has two equal definitions, from two equal   *)
(* list items.                                                             *)
C16_Witness ==
  /\ pc = "parsed"
  /\ IsSingleBlock(TheBlock)
  /\ Len(sentenceInfo.words) = 1
  /\ Len(sentenceInfo.words[1].definitions) = 2
  /\ sentenceInfo.words[1].definitions[1] = sentenceInfo.words[1].definitions[2]

(* ------------------- properties of the inserted block ------------------ *)

Range(s) == { s[i] : i \in 1..Len(s) }

Bullets == {Bullet1, Bullet2, Bullet3}

(* C17: with no words the block is the header, the placeholder line and    *)
(* the closing blank line, without any list item, and it is inserted and   *)
(* reported like any other; with words the placeholder is not in the block. *)
C17_PlaceholderOnlyWithoutWords ==
  pc = "inserted" =>
    /\ sentenceInfo.words = <<>> =>
         /\ inserted = <<Newline, CalloutHead>> \o sentenceInfo.original
                         \o <<Newline, NoWordsLine, Newline, Newline>>
         /\ Range(inserted) \cap Bullets = {}
         /\ notices = <<[kind |-> "inserted", text |-> sentenceInfo.original]>>
    /\ sentenceInfo.words # <<>> =>
         /\ NoWordsLine \notin Range(inserted)
         /\ Bullet1 \in Range(inserted)

(* An analysis without words has been inserted.                            *)
C17_Witness ==
  /\ pc = "inserted"
  /\ sentenceInfo.words = <<>>
  /\ NoWordsLine \in Range(inserted)

(* The lines of a text, without their line breaks.                         *)
RECURSIVE Lines(_)
Lines(s) ==
  IF Newline \notin Range(s) THEN <<s>>
  ELSE <<SubSeq(s, 1, PrefixLenWithout(s, Newline))>>
         \o Lines(SubSeq(s, PrefixLenWithout(s, Newline) + 2, Len(s)))

IsTopLevelLine(line) == line # <<>> /\ line[1] = Bullet1

TopLevelLines == SelectSeq(Lines(inserted), IsTopLevelLine)

(* C18: the line of a word with a reading whose key the index lacks is the *)
(* word followed by the reading in brackets, also with an empty index; the *)
(* line of a word without a reading is the word alone; a line has ruby     *)
(* markup only when a key looked up for the analysis is in the index, and  *)
(* the line of a single word only when its own key is.                     *)
C18_BracketFallback ==
  pc = "inserted" =>
    /\ LET top == TopLevelLines
       IN  /\ Len(top) = Len(sentenceInfo.words)
           /\ \A i \in 1..Len(sentenceInfo.words) :
                LET wordInfo == sentenceInfo.words[i]
                IN  ~HasAlternatives(wordInfo) =>
                      /\ ~Truthy(wordInfo.reading) => top[i] = <<Bullet1>> \o wordInfo.word
                      /\ (/\ Truthy(wordInfo.reading)
                          /\ Key(wordInfo.word, wordInfo.reading) \notin DOMAIN furiganaMap) =>
                           top[i] = <<Bullet1>> \o wordInfo.word \o <<Space, LBracket>>
                                      \o wordInfo.reading \o <<RBracket>>
                      /\ RubyOpen \in Range(top[i]) =>
                           /\ Truthy(wordInfo.reading)
                           /\ Key(wordInfo.word, wordInfo.reading) \in DOMAIN furiganaMap
    /\ RubyOpen \in Range(inserted) => \E i \in 1..Len(AllLookups) : HasEntry(AllLookups[i])

(* A word with a reading has been rendered in bracket form beside a word   *)
(* rendered with ruby markup, the index holding another reading of the     *)
(* first word.                                                             *)
C18_Witness ==
  /\ pc = "inserted"
  /\ RubyOpen \in Range(inserted)
  /\ \E i \in 1..Len(sentenceInfo.words) :
       /\ ~HasAlternatives(sentenceInfo.words[i])
       /\ Truthy(sentenceInfo.words[i].reading)
       /\ Key(sentenceInfo.words[i].word, sentenceInfo.words[i].reading) \notin DOMAIN furiganaMap
       /\ \E k \in DOMAIN furiganaMap : OccursAt(k, sentenceInfo.words[i].word \o <<"-">>, 0)
       /\ RBracket \in Range(TopLevelLines[i])

IsListLine(line) == line # <<>> /\ line[1] \in Bullets

ListLines == SelectSeq(Lines(inserted), IsListLine)

(* What the lines of one word have to be: the bullet of each line, and the *)
(* text after the bullet where the structure fixes it (whole = TRUE).       *)
DefinitionOutline(bullet, definitions) ==
  [k \in 1..Len(definitions) |-> [bullet |-> bullet, whole |-> TRUE, text |-> definitions[k]]]

WordOutline(wordInfo) ==
  IF HasAlternatives(wordInfo)
  THEN <<[bullet |-> Bullet1, whole |-> TRUE, text |-> wordInfo.word]>>
         \o Concat([j \in 1..Len(wordInfo.alternatives) |->
                      <<[bullet |-> Bullet2, whole |-> FALSE, text |-> <<>>]>>
                        \o DefinitionOutline(Bullet3, wordInfo.alternatives[j].definitions)])
  ELSE <<[bullet |-> Bullet1, whole |-> FALSE, text |-> <<>>]>>
         \o DefinitionOutline(Bullet2, wordInfo.definitions)

Outline == Concat([i \in 1..Len(sentenceInfo.words) |-> WordOutline(sentenceInfo.words[i])])

QuoteMarks == Bullets \cup {CalloutHead, NoWordsLine}

(* C20: after its leading line break every line of the block starts with   *)
(* the block-quote mark, the first of them with the foldable-section       *)
(* marker, and the block ends with exactly one blank line, whatever text   *)
(* was analysed.                                                           *)
C20_EveryLineBlockQuoted ==
  pc = "inserted" =>
    LET lines == Lines(inserted)
    IN  /\ Len(lines) >= 5
        /\ lines[1] = <<>>
        /\ lines[2] # <<>> /\ lines[2][1] = CalloutHead
        /\ \A k \in 2..(Len(lines) - 2) : lines[k] # <<>> /\ lines[k][1] \in QuoteMarks
        /\ lines[Len(lines) - 1] = <<>>
        /\ lines[Len(lines)] = <<>>

(* ------------------------------ the editor ----------------------------- *)
(* The editor is its lines and the two ends of its selection, anchor and   *)
(* head, which are equal when nothing is selected. Lines and characters    *)
(* are counted from 0.                                                     *)

MaxLines == 2

Pos(line, ch) == [line |-> line, ch |-> ch]

NotAfter(p, q) == p.line < q.line \/ (p.line = q.line /\ p.ch <= q.ch)

(* editor.getCursor(which); getCursor() is getCursor('head').              *)
getCursor(ed, which) ==
  CASE which = "head"   -> ed.head
    [] which = "anchor" -> ed.anchor
    [] which = "from"   -> IF NotAfter(ed.anchor, ed.head) THEN ed.anchor ELSE ed.head
    [] which = "to"     -> IF NotAfter(ed.anchor, ed.head) THEN ed.head ELSE ed.anchor

getLine(ed, n) == ed.lines[n + 1]

(* editor.getSelection(): the text between the two ends.                   *)
getSelection(ed) ==
  LET from == getCursor(ed, "from")
      to   == getCursor(ed, "to")
  IN  IF from.line = to.line THEN JsSlice(getLine(ed, from.line), from.ch, to.ch)
      ELSE JsSlice(getLine(ed, from.line), from.ch, Len(getLine(ed, from.line)))
             \o Concat([k \in 1..(to.line - from.line - 1) |->
                          <<Newline>> \o getLine(ed, from.line + k)])
             \o <<Newline>> \o JsSlice(getLine(ed, to.line), 0, to.ch)

HasSelection(ed) == getSelection(ed) # <<>> /\ Len(Trim(getSelection(ed))) > 0

getTextToAnalyzeUntrimmedLine(ed) ==
  IF HasSelection(ed) THEN Trim(getSelection(ed))
  ELSE getLine(ed, getCursor(ed, "head").line)

getTextToAnalyze(ed) ==
  IF HasSelection(ed) THEN Trim(getSelection(ed))
  ELSE Trim(getLine(ed, getCursor(ed, "head").line))

(* insertAnalysis: the end of the line of the selection end, or of the     *)
(* cursor when nothing is selected.                                        *)
EndOfLinePosition(ed) ==
  LET insertPosition == IF HasSelection(ed) THEN getCursor(ed, "to") ELSE getCursor(ed, "head")
  IN  Pos(insertPosition.line, Len(getLine(ed, insertPosition.line)))

(* Lines: empty, blank, and a word after a blank.                          *)
LineTexts == { <<>>, <<Space>>, <<Space, "a">> }

Positions(lines) ==
  UNION { { Pos(l, c) : c \in 0..Len(lines[l + 1]) } : l \in 0..(Len(lines) - 1) }

(* The cursors and selections an editor with these lines can have.         *)
EditorsOn(lines) ==
  { [lines |-> lines, anchor |-> a, head |-> h] : a \in Positions(lines), h \in Positions(lines) }

Editors == UNION { EditorsOn(lines) : lines \in SeqsUpTo(LineTexts, MaxLines) \ {<<>>} }

(* ------------------------------ analyzeText ---------------------------- *)

(* parseIchiMoeResponse of main.ts as a function of its arguments.         *)
parseIchiMoeResponse(document, submitted) ==
  [ original     |-> submitted,
    romanization |-> Romanization(document),
    words        |-> WordsOf(FirstVisibleRowGlosses(document)) ]

(* A response body with one word that has a reading.                       *)
OneWordDocument ==
  [dsWords |-> <<>>,
   rows |-> <<[hidden |-> FALSE,
               glosses |-> <<Gloss(<<"r">>, <<Dt(LabelWithReading, <<Li(<<"n">>, <<"g">>)>>)>>, <<>>)>>]>>]

ResponseBodies == {EmptyDocument, OneWordDocument}

(* Statuses other than 200 that requestUrl can resolve with or reject on.  *)
OtherStatuses == {204, 500}

TransportFailure == [status |-> -1, body |-> <<>>]

Notice(kind, about) == [kind |-> kind, text |-> about]

InitCommand ==
  /\ pc = "command"
  /\ editor \in Editors
  /\ invokedOn = NoEditor
  /\ furiganaMap = BuildFuriganaMap(JmdictFixture)
  /\ textToAnalyze = <<>>
  /\ response = NoResponse
  /\ calls = <<>>
  /\ insertedAt = NoPosition
  /\ sentenceInfo = [original |-> <<>>, romanization |-> Undefined, words |-> <<>>]
  /\ analysisText = <<>>
  /\ inserted = <<>>
  /\ notices = <<>>
  /\ PluginIdle
  /\ AnnotateIdle
  /\ ParseIdle

outsideCommand == <<annotateVars, parseVars, pluginVars, furiganaMap>>

(* analyzeText with nothing to analyse.                                    *)
RejectEmpty ==
  /\ pc = "command"
  /\ getTextToAnalyze(editor) = <<>>
  /\ textToAnalyze' = getTextToAnalyze(editor)
  /\ notices' = Append(notices, Notice("no-text", <<>>))
  /\ invokedOn' = editor
  /\ pc' = "rejected"
  /\ UNCHANGED <<editor, response, calls, insertedAt, sentenceInfo, analysisText, inserted>>
  /\ UNCHANGED outsideCommand

(* analyzeText up to the await: the text is captured and requestUrl is     *)
(* called.                                                                 *)
StartFetch ==
  /\ pc = "command"
  /\ getTextToAnalyze(editor) # <<>>
  /\ textToAnalyze' = getTextToAnalyze(editor)
  /\ notices' = Append(notices, Notice("analyzing", <<>>))
  /\ calls' = Append(calls, "requestUrl")
  /\ invokedOn' = editor
  /\ pc' = "pending"
  /\ UNCHANGED <<editor, response, insertedAt, sentenceInfo, analysisText, inserted>>
  /\ UNCHANGED outsideCommand

(* The user moves the cursor or changes the selection while the request is *)
(* pending. Any number of moves leaves the editor where one move can take  *)
(* it, so one move is modelled.                                            *)
MoveCursor ==
  /\ pc = "pending"
  /\ editor = invokedOn
  /\ editor' \in EditorsOn(editor.lines)
  /\ editor' # editor
  /\ UNCHANGED <<pc, invokedOn, textToAnalyze, response, calls, insertedAt, sentenceInfo, analysisText,
                 inserted, notices>>
  /\ UNCHANGED outsideCommand

InsertionPointAtInvocation == EndOfLinePosition(invokedOn)

(* insertAnalysis reads the selection and the cursor when it is called.    *)
InsertionPoint == EndOfLinePosition(editor)

(* The continuation of analyzeText on a 200 response, up to the call of    *)
(* editor.replaceRange at the end of insertAnalysis.                       *)
Analysed(body) ==
  /\ pc = "pending"
  /\ response' = [status |-> 200, body |-> body]
  /\ sentenceInfo' = parseIchiMoeResponse(body, textToAnalyze)
  /\ analysisText' = PlainAnalysisText(sentenceInfo', furiganaMap)
  /\ insertedAt' = InsertionPoint
  /\ calls' = calls \o <<"parseIchiMoeResponse", "replaceRange">>

FetchedAndInserted ==
  /\ \E body \in ResponseBodies : Analysed(body)
  /\ inserted' = analysisText'
  /\ notices' = Append(notices, Notice("inserted", sentenceInfo'.original))
  /\ pc' = "inserted"
  /\ UNCHANGED <<editor, invokedOn, textToAnalyze>>
  /\ UNCHANGED outsideCommand

(* editor.replaceRange throws: the catch block of insertAnalysis reports   *)
(* it and analyzeText ends normally.                                       *)
FetchedAndInsertThrows ==
  /\ \E body \in ResponseBodies : Analysed(body)
  /\ notices' = Append(notices, Notice("insert-error", <<>>))
  /\ pc' = "insert-failed"
  /\ UNCHANGED <<editor, invokedOn, textToAnalyze, inserted>>
  /\ UNCHANGED outsideCommand

FetchedOtherStatusUnchecked ==
  /\ pc = "pending"
  /\ \E status \in OtherStatuses : response' = [status |-> status, body |-> OneWordDocument]
  /\ sentenceInfo' = parseIchiMoeResponse(OneWordDocument, textToAnalyze)
  /\ analysisText' = PlainAnalysisText(sentenceInfo', furiganaMap)
  /\ insertedAt' = InsertionPoint
  /\ calls' = calls \o <<"parseIchiMoeResponse", "replaceRange">>
  /\ inserted' = analysisText'
  /\ notices' = Append(notices, Notice("inserted", sentenceInfo'.original))
  /\ pc' = "inserted"
  /\ UNCHANGED <<editor, invokedOn, textToAnalyze>>
  /\ UNCHANGED outsideCommand

(* requestUrl resolves with a status other than 200: fetchIchiMoeAnalysis  *)
(* throws, catches, throws again, and analyzeText reports the failure.     *)
FetchedOtherStatus ==
  /\ pc = "pending"
  /\ \E status \in OtherStatuses : response' = [status |-> status, body |-> OneWordDocument]
  /\ notices' = Append(notices, Notice("failed", <<>>))
  /\ pc' = "failed"
  /\ UNCHANGED <<editor, invokedOn, textToAnalyze, calls, insertedAt, sentenceInfo, analysisText,
                 inserted>>
  /\ UNCHANGED outsideCommand

(* requestUrl rejects: there is no response.                               *)
FetchRejected ==
  /\ pc = "pending"
  /\ response' = TransportFailure
  /\ notices' = Append(notices, Notice("failed", <<>>))
  /\ pc' = "failed"
  /\ UNCHANGED <<editor, invokedOn, textToAnalyze, calls, insertedAt, sentenceInfo, analysisText,
                 inserted>>
  /\ UNCHANGED outsideCommand

NextCommand ==
  \/ RejectEmpty
  \/ StartFetch
  \/ MoveCursor
  \/ FetchedAndInserted
  \/ FetchedAndInsertThrows
  \/ FetchedOtherStatus
  \/ FetchRejected

SpecCommand == InitCommand /\ [][NextCommand]_vars

(* ------------------------------ the plugin ----------------------------- *)
(* IchiMoePlugin of the revision with the settings tab: onload, the reload *)
(* button, loadFuriganaData, and the analyse command while they run. The   *)
(* index is one Map object: analyzeText is handed this.furiganaMap and     *)
(* insertAnalysis reads it when the fetch has resolved.                    *)

MaxReloads == 2

MaxAnalyses == 2

(* A dataset file: file is "missing" when readBinary or the unzip fails;   *)
(* entries is the parsed array; nullAfter is -1, or the number of entries  *)
(* in front of an element that is null instead of an entry.                *)
Dataset(file, entries, nullAfter) == [file |-> file, entries |-> entries, nullAfter |-> nullAfter]

Datasets ==
  { Dataset("missing", <<>>, -1),
    Dataset("ok", JmdictFixture, -1),
    Dataset("ok", <<JmdictFixture[2]>>, -1),
    Dataset("ok", <<JmdictFixture[1], JmdictFixture[2]>>, 1),
    Dataset("ok", <<>>, 0) }

(* The try block of loadFuriganaData throws.                               *)
LoadThrows(dataset) == dataset.file # "ok" \/ dataset.nullAfter >= 0

(* The entries the loop has stored when the try block ends.                *)
StoredEntries(dataset) ==
  IF dataset.file # "ok" THEN <<>>
  ELSE IF dataset.nullAfter >= 0 THEN SubSeq(dataset.entries, 1, dataset.nullAfter)
  ELSE dataset.entries

(* furiganaMap.size                                                        *)
getFuriganaEntryCount(map) == Cardinality(DOMAIN map)

NothingLoaded == BuildFuriganaMap(<<>>)

(* The editor of the analyses: one line, 'a', nothing selected.            *)
OneLineEditor == [lines |-> << <<"a">> >>, anchor |-> Pos(0, 0), head |-> Pos(0, 0)]

InitPlugin ==
  /\ pc = "command"
  /\ editor = OneLineEditor
  /\ invokedOn = NoEditor
  /\ furiganaMap = NothingLoaded
  /\ loading = NotLoading
  /\ commandRegistered = FALSE
  /\ statusEl = 0
  /\ textToAnalyze = <<>>
  /\ response = NoResponse
  /\ calls = <<>>
  /\ insertedAt = NoPosition
  /\ sentenceInfo = [original |-> <<>>, romanization |-> Undefined, words |-> <<>>]
  /\ analysisText = <<>>
  /\ inserted = <<>>
  /\ notices = <<>>
  /\ AnnotateIdle
  /\ ParseIdle

analysisVars == <<pc, editor, invokedOn, textToAnalyze, response, calls, insertedAt, sentenceInfo,
                  analysisText, inserted>>

(* loadFuriganaData up to its first await: the index is emptied.           *)
LoadStarts(by) ==
  /\ loading.at = "idle"
  /\ \E dataset \in Datasets :
       loading' = [loading EXCEPT !.at = "reading", !.by = by, !.dataset = dataset,
                                  !.previous = furiganaMap, !.started = @ + 1,
                                  !.outcome = "running"]
  /\ furiganaMap' = NothingLoaded
  /\ UNCHANGED <<commandRegistered, statusEl, notices, analysisVars, annotateVars, parseVars>>

(* onload calls loadFuriganaData.                                          *)
OnloadStarts == loading.started = 0 /\ LoadStarts("onload")

(* The reload button of the settings tab is clicked; the tab exists once   *)
(* onload has finished, and the button is disabled while a reload runs.    *)
ReloadClicked ==
  /\ commandRegistered
  /\ loading.started <= MaxReloads
  /\ LoadStarts("reload")

(* What runs when loadFuriganaData has returned: onload registers the      *)
(* command and adds the settings tab; the click handler updates the status *)
(* line.                                                                   *)
LoadReturns ==
  /\ commandRegistered' = (commandRegistered \/ loading.by = "onload")
  /\ statusEl' = IF loading.by = "reload" THEN getFuriganaEntryCount(furiganaMap') ELSE statusEl
  /\ UNCHANGED <<analysisVars, annotateVars, parseVars>>

(* The rest of the try block: the file is read and every entry stored.     *)
LoadSucceeds ==
  /\ loading.at = "reading"
  /\ ~LoadThrows(loading.dataset)
  /\ furiganaMap' = BuildFuriganaMap(StoredEntries(loading.dataset))
  /\ notices' = Append(notices, Notice("loaded", <<ToString(getFuriganaEntryCount(furiganaMap'))>>))
  /\ loading' = [loading EXCEPT !.at = "idle", !.outcome = "loaded"]
  /\ LoadReturns

(* The try block throws, in reading the file or at an element of the array *)
(* that is not an entry: the catch block reports it.                       *)
LoadFails ==
  /\ loading.at = "reading"
  /\ LoadThrows(loading.dataset)
  /\ furiganaMap' = BuildFuriganaMap(StoredEntries(loading.dataset))
  /\ notices' = Append(notices, Notice("load-failed", <<>>))
  /\ loading' = [loading EXCEPT !.at = "idle", !.outcome = "failed", !.failed = @ + 1]
  /\ LoadReturns

IsRequest(call) == call = "requestUrl"

(* parseIchiMoeResponse of this revision as a function of its arguments.   *)
parseAllVisibleRows(document, submitted) ==
  [ original     |-> submitted,
    romanization |-> Romanization(document),
    words        |-> WordsOf(AllVisibleRowGlosses(document)) ]

(* The command is run: analyzeText up to the await.                        *)
CommandRun ==
  /\ commandRegistered
  /\ pc \in {"command", "inserted"}
  /\ Len(SelectSeq(calls, IsRequest)) < MaxAnalyses
  /\ textToAnalyze' = getTextToAnalyze(editor)
  /\ invokedOn' = editor
  /\ notices' = Append(notices, Notice("analyzing", <<>>))
  /\ calls' = Append(calls, "requestUrl")
  /\ pc' = "pending"
  /\ UNCHANGED <<editor, response, insertedAt, sentenceInfo, analysisText, inserted>>
  /\ UNCHANGED <<furiganaMap, pluginVars, annotateVars, parseVars>>

(* The fetch resolves: the response is parsed and insertAnalysis looks the *)
(* words up in the index as it is now.                                     *)
AnalysisInserted ==
  /\ pc = "pending"
  /\ response' = [status |-> 200, body |-> OneWordDocument]
  /\ sentenceInfo' = parseAllVisibleRows(OneWordDocument, textToAnalyze)
  /\ analysisText' = BuildAnalysisText(sentenceInfo'.words, furiganaMap)
  /\ inserted' = BlockHead(applySentenceRubyTags(sentenceInfo'.original,
                                                 CollectFurigana(sentenceInfo'.words, furiganaMap)))
                   \o analysisText'
  /\ insertedAt' = InsertionPoint
  /\ calls' = calls \o <<"parseIchiMoeResponse", "replaceRange">>
  /\ notices' = Append(notices, Notice("inserted", sentenceInfo'.original))
  /\ pc' = "inserted"
  /\ UNCHANGED <<editor, invokedOn, textToAnalyze>>
  /\ UNCHANGED <<furiganaMap, pluginVars, annotateVars, parseVars>>

NextPlugin ==
  \/ OnloadStarts
  \/ ReloadClicked
  \/ LoadSucceeds
  \/ LoadFails
  \/ CommandRun
  \/ AnalysisInserted

SpecPlugin == InitPlugin /\ [][NextPlugin]_vars

(* ------------- termination and shape of the splitting loop ------------- *)

HasEmptyBase == \E i \in 1..Len(allFurigana) : StripEntry(allFurigana[i]).base = <<>>

(* C26: annotate returns for every sentence and every list of entries,     *)
(* also one with an entry none of whose segments carries a reading.        *)
C26_AnnotateTerminates == <>(pc = "annotated")

(* With a base in every entry annotate returns.                            *)
TerminatesWithReadings == (~HasEmptyBase) => <>(pc = "annotated")

(* In the loop of an entry with the empty base the loop condition holds in *)
(* every state: the first piece is a literal, and every literal includes   *)
(* the empty string.                                                       *)
EmptyBaseLoopNeverExits ==
  (pc = "split" /\ entryIdx <= Len(stripped) /\ stripped[entryIdx].base = <<>>) =>
    FindPiece(result, stripped[entryIdx].base) = 0

(* Annotate has not returned and cannot: the entry in turn has the empty   *)
(* base and the result has grown past the length of any run that ends.     *)
LoopingOnEmptyBase ==
  /\ pc = "split"
  /\ entryIdx <= Len(stripped)
  /\ stripped[entryIdx].base = <<>>
  /\ Len(result) + 2 > MaxPieces

(* A base that several entries of the input list have.                     *)
SharedBases ==
  { StripEntry(allFurigana[i]).base :
      i \in { k \in 1..Len(allFurigana) :
                \E j \in 1..Len(allFurigana) :
                  j # k /\ StripEntry(allFurigana[j]).base = StripEntry(allFurigana[k]).base } }

(* C27 as amended: of the entries that share a base only the one listed    *)
(* first annotates, so every annotated piece carries the segments of the   *)
(* first-listed entry with its base; when annotate returns, an occurrence  *)
(* of a shared base in the sentence is a piece annotated by that entry     *)
(* unless it overlaps another annotated piece (an occurrence covered by a  *)
(* longer entry, or overlapping an occurrence further left).               *)
C27_FirstOfSameBaseAnnotates ==
  /\ InLoop =>
       \A k \in 1..Len(result) :
         ~result[k].isString =>
           result[k].furigana = FirstInputWithBase(PieceText(result[k])).furigana
  /\ pc = "annotated" =>
       \A b \in SharedBases :
         \A p \in 0..Len(originalSentence) :
           OccursAt(originalSentence, b, p) =>
             \/ [start |-> p, furigana |-> FirstInputWithBase(b).furigana]
                  \in AnnotatedSpans(result)
             \/ \E k \in 1..Len(result) :
                  /\ ~result[k].isString
                  /\ PieceStart(result, k) < p + Len(b)
                  /\ p < PieceStart(result, k) + Len(PieceText(result[k]))
                  /\ PieceStart(result, k) # p \/ Len(PieceText(result[k])) # Len(b)

(* Two entries with the same base and different readings, the base twice   *)
(* in the sentence, both occurrences annotated with the first entry.       *)
C27_Witness ==
  /\ pc = "annotated"
  /\ \E i, j \in 1..Len(allFurigana) :
       /\ i < j
       /\ StripEntry(allFurigana[i]).base = StripEntry(allFurigana[j]).base
       /\ StripEntry(allFurigana[i]).furigana # StripEntry(allFurigana[j]).furigana
       /\ StripEntry(allFurigana[i]) = FirstInputWithBase(StripEntry(allFurigana[i]).base)
       /\ \E k, m \in 1..Len(result) :
            /\ k < m
            /\ result[k] = Ann(StripEntry(allFurigana[i]).furigana)
            /\ result[m] = Ann(StripEntry(allFurigana[i]).furigana)

(* C27 as claimed: the first-listed entry of a shared base annotates every *)
(* occurrence of the base in the sentence.                                 *)
C27_FirstAnnotatesEveryOccurrence ==
  pc = "annotated" =>
    \A b \in SharedBases :
      \A p \in 0..Len(originalSentence) :
        OccursAt(originalSentence, b, p) =>
          [start |-> p, furigana |-> FirstInputWithBase(b).furigana] \in AnnotatedSpans(result)

(* C30: in the splitting loop the pieces alternate, literal first and      *)
(* literal last, so the sequence has one piece more than twice its         *)
(* annotated pieces; the piece about to be split has no literal neighbour, *)
(* so neither remainder is ever merged into one.                           *)
C30_PiecesAlternate ==
  InLoop =>
    /\ Len(result) % 2 = 1
    /\ \A k \in 1..Len(result) : result[k].isString <=> (k % 2 = 1)
    /\ Len(result) = 2 * Cardinality({ k \in 1..Len(result) : ~result[k].isString }) + 1
    /\ (pc = "split" /\ entryIdx <= Len(stripped)
          /\ FindPiece(result, stripped[entryIdx].base) >= 0) =>
         LET s == FindPiece(result, stripped[entryIdx].base) + 1
         IN  /\ s = 1 \/ ~result[s - 1].isString
             /\ s = Len(result) \/ ~result[s + 1].isString

(* Two annotated pieces next to each other in the sentence, with the empty *)
(* literal between them, and the split of a later piece still to come.     *)
C30_Witness ==
  /\ pc = "split"
  /\ Len(result) >= 5
  /\ result[3] = Lit(<<>>)
  /\ entryIdx <= Len(stripped)
  /\ FindPiece(result, stripped[entryIdx].base) >= 2

(* -------------------- properties of the command ------------------------ *)

FailureKinds == {"failed", "insert-error", "no-text"}

IsFailureNotice(n) == n.kind \in FailureKinds

FailureNotices == SelectSeq(notices, IsFailureNotice)

(* The request has ended without a 200 response.                           *)
FetchFailed == response.status \in OtherStatuses \/ response = TransportFailure

(* C22: once the fetch has returned a status other than 200 or failed in   *)
(* transport, the user has been told of the failure exactly once, the      *)
(* parser was not called, replaceRange was not called and nothing was      *)
(* inserted; the request stays in that state.                              *)
C22_FetchFailure ==
  FetchFailed =>
    /\ pc = "failed"
    /\ FailureNotices = <<Notice("failed", <<>>)>>
    /\ calls = <<"requestUrl">>
    /\ inserted = <<>>
    /\ insertedAt = NoPosition
    /\ analysisText = <<>>
    /\ sentenceInfo.words = <<>>

(* A request ended on status 500 with a body that holds a word.            *)
C22_Witness ==
  /\ pc = "failed"
  /\ response.status = 500
  /\ parseIchiMoeResponse(response.body, textToAnalyze).words # <<>>

(* The command was invoked with a blank selection on a blank line.         *)
InvokedOnBlank ==
  /\ invokedOn # NoEditor
  /\ Trim(getSelection(invokedOn)) = <<>>
  /\ Trim(invokedOn.lines[invokedOn.head.line + 1]) = <<>>

(* C23: a command invoked with an empty or blank selection on an empty or  *)
(* blank current line is rejected: the user is told once that there is no  *)
(* text, and no fetch, no parse and no insertion is made.                  *)
C23_EmptyInput ==
  InvokedOnBlank =>
    /\ pc = "rejected"
    /\ notices = <<Notice("no-text", <<>>)>>
    /\ calls = <<>>
    /\ response = NoResponse
    /\ inserted = <<>>
    /\ insertedAt = NoPosition
    /\ sentenceInfo.words = <<>>

(* Rejected with a selection that is blank but not empty, in a document    *)
(* that has text on another line.                                          *)
C23_Witness ==
  /\ pc = "rejected"
  /\ getSelection(invokedOn) # <<>>
  /\ \E l \in 1..Len(invokedOn.lines) : Trim(invokedOn.lines[l]) # <<>>

(* The line the block goes after, as the claim has it: that of the later   *)
(* end of the selection, or that of the cursor when nothing (or only white *)
(* space) is selected.                                                     *)
LineOfSelectionEndOrCursor(ed) ==
  IF Trim(getSelection(ed)) # <<>> THEN Max(ed.anchor.line, ed.head.line) ELSE ed.head.line

(* C28: the block goes to the end of the line of the cursor or selection   *)
(* end that the editor has when the fetch has resolved, and the text       *)
(* analysed is the one the editor gave when the command was invoked.       *)
C28_InsertionPointAtResolution ==
  pc \in {"inserted", "insert-failed"} =>
    /\ insertedAt = Pos(LineOfSelectionEndOrCursor(editor),
                        Len(editor.lines[LineOfSelectionEndOrCursor(editor) + 1]))
    /\ sentenceInfo.original = getTextToAnalyze(invokedOn)
    /\ textToAnalyze = getTextToAnalyze(invokedOn)

(* The cursor moved while the request was pending, to a line that gives    *)
(* another insertion point and another text.                               *)
C28_Witness ==
  /\ pc = "inserted"
  /\ insertedAt # EndOfLinePosition(invokedOn)
  /\ insertedAt.line # LineOfSelectionEndOrCursor(invokedOn)
  /\ getTextToAnalyze(editor) # sentenceInfo.original

(* ------------------- properties of the header line --------------------- *)

(* The header the claim describes: the sentence annotated with the entry   *)
(* of every lookup of the analysis that the index holds.                   *)
AnnotatedHeader ==
  <<Newline, CalloutHead>>
    \o applySentenceRubyTags(sentenceInfo.original,
                             CollectFurigana(sentenceInfo.words, furiganaMap))
    \o <<Newline>>

StartsWith(s, prefix) ==
  Len(s) >= Len(prefix) /\ SubSeq(s, 1, Len(prefix)) = prefix

(* Some lookup of the analysis is in the index and its base occurs in the  *)
(* analysed text, so that the annotated sentence is not the bare text.     *)
AnnotationChangesHeader ==
  applySentenceRubyTags(sentenceInfo.original,
                        CollectFurigana(sentenceInfo.words, furiganaMap))
    # sentenceInfo.original

(* C21: the inserted block starts with the header line that carries the    *)
(* annotated sentence, the analysed text with the furigana of every word   *)
(* found in the index applied by the annotator, not the bare text.         *)
C21_HeaderCarriesAnnotatedSentence ==
  pc = "inserted" => StartsWith(inserted, AnnotatedHeader)

(* A block was inserted for an analysis whose annotated sentence differs   *)
(* from the analysed text.                                                 *)
C21_Witness ==
  /\ pc = "inserted"
  /\ AnnotationChangesHeader
  /\ RubyOpen \in Range(AnnotatedHeader)

(* ------------------------- a load that fails --------------------------- *)

LoadFailureNotices == SelectSeq(notices, LAMBDA n : n.kind = "load-failed")

(* The last load attempt failed and no other has begun.                    *)
LastLoadFailed == loading.at = "idle" /\ loading.outcome = "failed"

(* Every failed load attempt has been reported once, and the command is    *)
(* registered once onload's load has returned, failed or not.              *)
FailureReportedOnceAndCommandKept ==
  /\ Len(LoadFailureNotices) = loading.failed
  /\ (loading.started > 0 /\ loading.at = "idle" => commandRegistered)
  /\ (loading.started > 1 => commandRegistered)

(* An analysis is inserted in this step.                                   *)
InsertsAnalysis == pc = "pending" /\ pc' = "inserted"

(* C24: when a load of the furigana dataset fails (file missing or         *)
(* unreadable, or contents malformed), the failure is reported exactly     *)
(* once for the attempt, the analyse command is still registered, and an   *)
(* analysis inserted after it has its word lines in bracket notation and   *)
(* adds no failure notice of its own.                                      *)
C24_LoadFailureNotFatal ==
  /\ [](FailureReportedOnceAndCommandKept)
  /\ [][ InsertsAnalysis /\ LastLoadFailed
           => /\ RubyOpen \notin Range(analysisText')
              /\ LBracket \in Range(analysisText')
              /\ Len(notices') = Len(notices) + 1
              /\ ~IsFailureNotice(notices'[Len(notices')])
              /\ notices'[Len(notices')].kind # "load-failed" ]_vars

(* A load has failed at an element that is not an entry, and the analysis  *)
(* inserted after it has a ruby word line.                                 *)
RubyAfterFailedLoad ==
  /\ LastLoadFailed
  /\ loading.dataset.nullAfter > 0
  /\ pc = "inserted"
  /\ RubyOpen \in Range(analysisText)

(* A load has failed in reading the file, and the analysis inserted after  *)
(* it has its word line in brackets.                                       *)
BracketsAfterMissingFile ==
  /\ LastLoadFailed
  /\ loading.dataset.file = "missing"
  /\ pc = "inserted"
  /\ LBracket \in Range(analysisText)
  /\ RubyOpen \notin Range(analysisText)

(* ----------------------- readers during a reload ----------------------- *)

(* The index a load in progress will leave when it ends.                   *)
IndexAfterLoad == BuildFuriganaMap(StoredEntries(loading.dataset))

(* C25: an analysis whose lookups run while a load is in progress finds    *)
(* the whole index of before the load or the whole index of after it.      *)
C25_ReloadAtomicForReaders ==
  [][ InsertsAnalysis /\ loading.at = "reading"
        => furiganaMap \in {loading.previous, IndexAfterLoad} ]_vars

(* An analysis was inserted while a reload was reading a dataset that      *)
(* holds the word, as the index before the reload did, and its word line   *)
(* is in brackets.                                                         *)
EmptyIndexReadDuringReload ==
  /\ loading.at = "reading"
  /\ Key(<<"a">>, <<"x">>) \in DOMAIN loading.previous
  /\ Key(<<"a">>, <<"x">>) \in DOMAIN IndexAfterLoad
  /\ pc = "inserted"
  /\ Len(SelectSeq(calls, IsRequest)) = 1
  /\ LBracket \in Range(analysisText)

(* ------------------------- a reload that fails ------------------------- *)

LastReloadFailed == LastLoadFailed /\ loading.by = "reload"

(* C29: after a reload that fails the index is empty and the entry count   *)
(* shown in the settings tab is 0, whatever the load before had stored.    *)
C29_FailedReloadLeavesIndexEmpty ==
  LastReloadFailed => furiganaMap = NothingLoaded /\ statusEl = 0

(* After a reload that fails the index holds the entries stored before the *)
(* throw and nothing else, and the count shown is their number.            *)
FailedReloadKeepsOnlyStoredEntries ==
  LastReloadFailed =>
    /\ furiganaMap = BuildFuriganaMap(StoredEntries(loading.dataset))
    /\ statusEl = getFuriganaEntryCount(furiganaMap)
    /\ (loading.dataset.nullAfter <= 0 => furiganaMap = NothingLoaded /\ statusEl = 0)

(* A reload has failed at an element that is not an entry, after a load    *)
(* that had stored other entries, and the count shown is 1.                *)
FailedReloadLeftAnEntry ==
  /\ LastReloadFailed
  /\ getFuriganaEntryCount(loading.previous) > 1
  /\ furiganaMap # NothingLoaded
  /\ statusEl = 1

(* A reload has failed in reading the file, after a load that had stored   *)
(* entries, and the index is empty.                                        *)
FailedReloadLeftNothing ==
  /\ LastReloadFailed
  /\ loading.dataset.file = "missing"
  /\ loading.previous # NothingLoaded
  /\ furiganaMap = NothingLoaded
  /\ statusEl = 0

====
